---- MODULE Spec2Model ----
(***************************************************************************)
(* A model of the 51job crawler's concurrent and stateful components.      *)
(*                                                                         *)
(* Spec    : CrawlerScheduler (src/crawler/scheduler.py): the main thread  *)
(*           calling the public API one call at a time, the calendar       *)
(*           trigger thread, and the ThreadPoolExecutor workers running    *)
(*           _execute_task. Statements of different threads interleave;    *)
(*           the class takes no lock.                                      *)
(* SpecDb  : DatabaseManager.insert_job_listing                            *)
(*           (src/utils/database_manager.py) on the three backends.        *)
(***************************************************************************)
EXTENDS Integers, Sequences, FiniteSets, TLC

\* ------------------------------------------------------------------ bounds
MaxTasks == 2      \* task ids ever created
MaxWorkers == 1    \* max_workers of the pool
MaxUnits == 2      \* (keyword, city) pairs of one task
MaxStarts == 1     \* calls of start that find the scheduler stopped
MaxJobIds == 3     \* distinct job_id values offered to the database
MaxBatch == 3      \* records in one job_data_list
MaxInserts == 4    \* cap of the total_inserts counter
MaxCalls == 3      \* search calls made on one client
MaxAttempts == 4   \* largest max_attempts of a RetryConfig
MaxProxies == 2    \* proxies in the pool
MaxSuccess == 7    \* cap of a proxy's success_count
MaxFailure == 7    \* cap of a proxy's failure_count
MaxDpIds == 2      \* distinct job_id values given to the processor
MaxDpCalls == 4    \* cap of the total_records counter
MaxRequests == 25  \* cap of the total_requests counter
MaxSalary == 2     \* largest number in a salary text
MaxPages == 3      \* self.max_pages and the largest max_pages argument
MaxTotalCount == 7 \* largest total_count a page reports
MaxRecords == 850  \* largest number of records exported
MaxUsage == 4      \* cap of usage_count
MaxDelayAttempt == 9\* largest attempt number passed to calculate_delay
MaxTransactions == 4 \* cap of the number of scopes entered
MaxLoopThreads == 2\* cap of the threads started for one loop
MaxRun == 3        \* largest run of digits in a jobSalary text
page_size == 2     \* self.page_size of the spider

TaskIds == 1..MaxTasks
Workers == 1..MaxWorkers
Threads == {"main", "trig"}

None == "None"
Now == "now"

\* TaskStatus
PENDING == "pending"
RUNNING == "running"
COMPLETED == "completed"
FAILED == "failed"
CANCELLED == "cancelled"

VARIABLES
  tasks,             \* self.tasks: task_id -> CrawlTask (ids are 1, 2, ...)
  running_futures,   \* self.running_futures: its keys, in insertion order
  fut,               \* state of the Future last created for each task id
  workQueue,         \* the executor's FIFO work queue (task ids of its work items)
  wtask, wpc, wunit, \* each pool thread: its task (0 = idle), position, unit index
  stats,             \* SchedulerStats counters
  running,           \* self._running
  shutdown_event,    \* self._shutdown_event
  enable_schedule,   \* self.enable_schedule
  schedule_jobs,     \* len(schedule.jobs): the installed triggers
  starts,            \* times start found the scheduler stopped
  op, pc, arg,       \* each client thread: API call in progress, position, task id
  todo,              \* shutdown: list(self.running_futures.keys()) still to cancel
  last,              \* the main thread's last call: what it saw and returned
  bodyRuns,          \* history: times _execute_task started for a task id
  interrupted,       \* history: task ids whose body observed the shutdown signal
  submitBegun,       \* history: task ids submit_task was called on
  cancelledFirst,    \* history: task ids cancel_task cancelled before any submit_task
  backend,           \* the database backend of database_url
  job_listings,      \* the rows of table job_listings, as their job_id column
  db_stats,          \* DatabaseStats.total_inserts
  db_last,           \* the last insert_job_listing call: its job_id and outcome
  db_batch,          \* the last batch_insert_job_listings call and its outcome
  client,            \* which generation of the search client this is
  cookie_manager,    \* whether the client owns a CookieManager
  cookies,           \* the acw_sc__v2 entry of the cookie map: none, stale, derived
  max_retry,         \* self.max_retry of the legacy client
  s_pc,              \* position of the search call: idle, enter, loop, done
  attempt,           \* loop index of the current search call
  depth,             \* recursion depth of fetch_jobs
  cookie_refreshed,  \* local flag of search_jobs
  sent,              \* requests sent by the current search call
  reqlog,            \* the first two requests of the call: response and cookie carried
  lastreq,           \* the latest request of the call
  s_ret,             \* how the search call ended
  calls,             \* search calls begun on this client
  max_attempts,      \* RetryConfig.max_attempts
  retry_exceptions,  \* the retry_exceptions argument; {} when none is given
  r_pc,              \* position of execute_with_retry: idle, invoke, sleep, done
  attempt_count,     \* RetryHandler.attempt_count, the loop index
  invocations,       \* invocations of func in the current call
  sleeps,            \* time.sleep calls in the current call
  last_exception,    \* last_exception of execute_with_retry
  all_retryable,     \* every invocation so far failed with a retryable kind
  r_ret,             \* how execute_with_retry ended: returned or the kind raised
  proxies,           \* ProxyManager.proxies
  current_index,     \* ProxyManager.current_index
  p_last,            \* the proxy the last get_proxy returned, when it was the last operation
  h_max,             \* max_attempts of request: max_retries of the call or of the handler
  h_pc,              \* position of request: idle, prepare, wire, done
  h_attempt,         \* attempt of request
  a_left,            \* retries the HTTPAdapter has left in the current session.request
  h_proxy,           \* proxy_info of the current _make_request, 0 for None
  wire,              \* HTTP requests sent by the current call of request
  h_last,            \* the latest exchange: response, proxy, and the proxy's record before
  saw_other,         \* the call received a status that is neither 200, 403, 429 nor >= 500
  h_ret,             \* how request ended: returned or the exception raised
  enable_deduplication,\* DataProcessor.enable_deduplication
  seen_job_ids,      \* DataProcessor._seen_job_ids
  dp_pc,             \* position of each thread in process_job_data: idle, checked
  dp_arg,            \* the record each thread is processing
  dp_out,            \* valid records returned so far, per job_id
  dp_stats,          \* ProcessingStats counters
  m_stats,           \* CrawlerMonitor.stats counters
  last_success_time, \* age of stats['last_success_time']: never, recent, old
  m_health,          \* result of the last is_health_critical, fresh while nothing was recorded since
  v_data,            \* argument of the last validate_job_data
  v_result,          \* ValidationResult of the last validate_job_data
  v_done,            \* whether validate_job_data has been called
  crawl,             \* crawl_jobs: position, effective max_pages, page
  crawl_log,         \* pages requested by crawl_jobs, in order, with search_jobs' result
  ro,                \* main_new.py in --once mode: position, task id, result of the wait, exit code
  export,            \* the export loop: position, number of records, loop variable i
  add_records,       \* the record slices passed to add_records, in call order
  notion,            \* add_content: position, max_retry, requests sent, 1 s pauses, other failures, last status, outcome
  ua,                \* UserAgentRotator: user_agents, current_agent, usage_count, last_index, rotation_enabled
  ua_sel,            \* the strings chosen by the last two selections of get_random_agent
  processed,         \* argument and result of the last sequential process_job_data
  backoff,           \* calculate_delay: the configuration, the last attempt and its delay before jitter, the call before it
  spider,            \* the shared JobSpider: state of its request handler and database manager
  unit,              \* per pool thread: position in the unit body, units left, whether the crawl returned jobs
  used_closed,       \* components that were used while closed
  tx,                \* the get_transaction scope: position, engine, connection, transaction, how the body ended
  tx_count,          \* scopes entered, committed, rolled back, engines disposed
  loops,             \* the trigger loop, the auto-refresh loop and the probe loop: flag, threads, handle
  sal                \* the last salary range produced: by which function, from which text, and the two ends

schedVars == <<tasks, running_futures, fut, workQueue, wtask, wpc, wunit, stats,
               running, shutdown_event, enable_schedule, schedule_jobs, starts,
               op, pc, arg, todo, last, bodyRuns, interrupted, submitBegun,
               cancelledFirst>>

dbVars == <<backend, job_listings, db_stats, db_last, db_batch>>

searchVars == <<client, cookie_manager, cookies, max_retry, s_pc, attempt, depth,
                cookie_refreshed, sent, reqlog, lastreq, s_ret, calls>>

retryVars == <<max_attempts, retry_exceptions, r_pc, attempt_count, invocations,
               sleeps, last_exception, all_retryable, r_ret>>

proxyVars == <<proxies, current_index, p_last>>

requestVars == <<h_max, h_pc, h_attempt, a_left, h_proxy, wire, h_last, saw_other, h_ret>>

dpVars == <<enable_deduplication, seen_job_ids, dp_pc, dp_arg, dp_out, dp_stats>>

monitorVars == <<m_stats, last_success_time, m_health>>

validatorVars == <<v_data, v_result, v_done>>

crawlVars == <<crawl, crawl_log>>

runOnceVars == <<ro>>

exportVars == <<export, add_records>>

notionVars == <<notion>>

userAgentVars == <<ua, ua_sel>>

processVars == <<processed>>

delayVars == <<backoff>>

unitVars == <<spider, unit, used_closed>>

txVars == <<tx, tx_count>>

loopVars == <<loops>>

salaryVars == <<sal>>

vars == <<schedVars, dbVars, searchVars, retryVars, proxyVars, requestVars, dpVars, monitorVars, validatorVars, crawlVars, runOnceVars, exportVars, notionVars, userAgentVars, processVars, delayVars, unitVars, txVars, loopVars, salaryVars>>

\* ------------------------------------------------------------ CrawlTask
NewTask(n, th) ==
  [status |-> PENDING, started_at |-> None, completed_at |-> None,
   error_message |-> None, results |-> FALSE, units |-> n, owner |-> th]

is_running(t) == tasks[t].status = RUNNING

\* (variant: CANCELLED left out of the terminal statuses)
is_completed_without_cancelled(t) == tasks[t].status \in {COMPLETED, FAILED}

is_completed(t) == tasks[t].status \in {COMPLETED, FAILED, CANCELLED}

\* what a call returned
InProgress == "in progress"
Raised == "raised"
True == "True"
False == "False"

\* The record of a call of the main thread: the status it found, whether the
\* task's body had started, whether submit_task had ever been called on the
\* task when it returned, and what it returned.
NoCall == [call |-> "none", task |-> 0, pre |-> None, started |-> FALSE,
           unsubmitted |-> FALSE, ret |-> None]

Range(s) == {s[i] : i \in DOMAIN s}

Without(s, t) == SelectSeq(s, LAMBDA x : x # t)

\* dict[key] = value: a key already present keeps its place
Put(s, t) == IF t \in Range(s) THEN s ELSE Append(s, t)

\* a thread is back where it was before the call
Idle(th) == IF th = "main" THEN "idle" ELSE "loop"

\* ------------------------------------------------------------ __init__
SchedInit ==
  /\ tasks = <<>>
  /\ running_futures = <<>>
  /\ fut = [t \in TaskIds |-> "none"]
  /\ workQueue = <<>>
  /\ wtask = [w \in Workers |-> 0]
  /\ wpc = [w \in Workers |-> "idle"]
  /\ wunit = [w \in Workers |-> 0]
  /\ stats = [total_tasks |-> 0, completed_tasks |-> 0, failed_tasks |-> 0,
              cancelled_tasks |-> 0]
  /\ running = FALSE
  /\ shutdown_event = FALSE
  /\ enable_schedule \in BOOLEAN
  /\ schedule_jobs = 0
  /\ starts = 0
  /\ op = [th \in Threads |-> IF th = "main" THEN "idle" ELSE "off"]
  /\ pc = [th \in Threads |-> "-"]
  /\ arg = [th \in Threads |-> 0]
  /\ todo = <<>>
  /\ last = NoCall
  /\ bodyRuns = [t \in TaskIds |-> 0]
  /\ interrupted = {}
  /\ submitBegun = {}
  /\ cancelledFirst = {}

\* ------------------------------------------------------------ create_task
NextId == Len(tasks) + 1

create_task(th, n) ==
  /\ NextId <= MaxTasks
  /\ tasks' = Append(tasks, NewTask(n, th))
  /\ stats' = [stats EXCEPT !.total_tasks = @ + 1]

CreateTask(n) ==
  /\ op["main"] = "idle"
  /\ create_task("main", n)
  /\ last' = [NoCall EXCEPT !.call = "create_task", !.task = NextId]
  /\ UNCHANGED <<running_futures, fut, workQueue, wtask, wpc, wunit, running,
                 shutdown_event, enable_schedule, schedule_jobs, starts, op, pc, arg,
                 todo, bodyRuns, interrupted, submitBegun, cancelledFirst, backend,
                 job_listings, db_stats, db_last, db_batch, client, cookie_manager,
                 cookies, max_retry, s_pc, attempt, depth, cookie_refreshed, sent,
                 reqlog, lastreq, s_ret, calls, max_attempts, retry_exceptions, r_pc,
                 attempt_count, invocations, sleeps, last_exception, all_retryable,
                 r_ret, proxies, current_index, p_last, h_max, h_pc, h_attempt, a_left,
                 h_proxy, wire, h_last, saw_other, h_ret, enable_deduplication,
                 seen_job_ids, dp_pc, dp_arg, dp_out, dp_stats, m_stats,
                 last_success_time, m_health, v_data, v_result, v_done, crawl,
                 crawl_log, ro, export, add_records, notion, ua, ua_sel, processed,
                 backoff, spider, unit, used_closed, tx, tx_count, loops, sal>>

\* ------------------------------------------------------------ submit_task
\* (variant: without the is_running test)
SubmitAcceptsRunning(t) == ~is_completed(t)

\* what submit_task decides from the status of the task it is given
SubmitAccepts(t) == ~is_running(t) /\ ~is_completed(t)

\* if task.is_running: return False; if task.is_completed: return False
SubmitCheck(th, t) ==
  /\ submitBegun' = submitBegun \cup {t}
  /\ arg' = [arg EXCEPT ![th] = t]
  /\ IF SubmitAccepts(t)
     THEN /\ op' = [op EXCEPT ![th] = "submit_task"]
          /\ pc' = [pc EXCEPT ![th] = "dispatch"]
     ELSE /\ op' = [op EXCEPT ![th] = Idle(th)]
          /\ pc' = [pc EXCEPT ![th] = "-"]

\* The main thread submits a task it created (run_once), the trigger thread the
\* task it has just created (scheduled_crawl).
MainSubmit(t) ==
  /\ op["main"] = "idle"
  /\ t \in DOMAIN tasks /\ tasks[t].owner = "main"
  /\ SubmitCheck("main", t)
  /\ last' = [NoCall EXCEPT !.call = "submit_task", !.task = t, !.pre = tasks[t].status,
                            !.ret = IF SubmitAccepts(t) THEN InProgress ELSE False]
  /\ UNCHANGED <<tasks, running_futures, fut, workQueue, wtask, wpc, wunit, stats,
                 running, shutdown_event, enable_schedule, schedule_jobs, starts, todo,
                 bodyRuns, interrupted, cancelledFirst, backend, job_listings,
                 db_stats, db_last, db_batch, client, cookie_manager, cookies,
                 max_retry, s_pc, attempt, depth, cookie_refreshed, sent, reqlog,
                 lastreq, s_ret, calls, max_attempts, retry_exceptions, r_pc,
                 attempt_count, invocations, sleeps, last_exception, all_retryable,
                 r_ret, proxies, current_index, p_last, h_max, h_pc, h_attempt, a_left,
                 h_proxy, wire, h_last, saw_other, h_ret, enable_deduplication,
                 seen_job_ids, dp_pc, dp_arg, dp_out, dp_stats, m_stats,
                 last_success_time, m_health, v_data, v_result, v_done, crawl,
                 crawl_log, ro, export, add_records, notion, ua, ua_sel, processed,
                 backoff, spider, unit, used_closed, tx, tx_count, loops, sal>>

TrigSubmit ==
  /\ op["trig"] = "submit_task" /\ pc["trig"] = "check"
  /\ SubmitCheck("trig", arg["trig"])
  /\ UNCHANGED <<tasks, running_futures, fut, workQueue, wtask, wpc, wunit, stats,
                 running, shutdown_event, enable_schedule, schedule_jobs, starts, todo,
                 last, bodyRuns, interrupted, cancelledFirst, backend, job_listings,
                 db_stats, db_last, db_batch, client, cookie_manager, cookies,
                 max_retry, s_pc, attempt, depth, cookie_refreshed, sent, reqlog,
                 lastreq, s_ret, calls, max_attempts, retry_exceptions, r_pc,
                 attempt_count, invocations, sleeps, last_exception, all_retryable,
                 r_ret, proxies, current_index, p_last, h_max, h_pc, h_attempt, a_left,
                 h_proxy, wire, h_last, saw_other, h_ret, enable_deduplication,
                 seen_job_ids, dp_pc, dp_arg, dp_out, dp_stats, m_stats,
                 last_success_time, m_health, v_data, v_result, v_done, crawl,
                 crawl_log, ro, export, add_records, notion, ua, ua_sel, processed,
                 backoff, spider, unit, used_closed, tx, tx_count, loops, sal>>

\* self._initialize_components()
\* future = self.executor.submit(self._execute_task, task_id)
SubmitDispatch(th) ==
  /\ op[th] = "submit_task" /\ pc[th] = "dispatch"
  /\ workQueue' = Append(workQueue, arg[th])
  /\ fut' = [fut EXCEPT ![arg[th]] = "pending"]
  /\ pc' = [pc EXCEPT ![th] = "register"]
  /\ UNCHANGED <<tasks, running_futures, wtask, wpc, wunit, stats, running,
                 shutdown_event, enable_schedule, schedule_jobs, starts, op, arg, todo,
                 last, bodyRuns, interrupted, submitBegun, cancelledFirst, backend,
                 job_listings, db_stats, db_last, db_batch, client, cookie_manager,
                 cookies, max_retry, s_pc, attempt, depth, cookie_refreshed, sent,
                 reqlog, lastreq, s_ret, calls, max_attempts, retry_exceptions, r_pc,
                 attempt_count, invocations, sleeps, last_exception, all_retryable,
                 r_ret, proxies, current_index, p_last, h_max, h_pc, h_attempt, a_left,
                 h_proxy, wire, h_last, saw_other, h_ret, enable_deduplication,
                 seen_job_ids, dp_pc, dp_arg, dp_out, dp_stats, m_stats,
                 last_success_time, m_health, v_data, v_result, v_done, crawl,
                 crawl_log, ro, export, add_records, notion, ua, ua_sel, processed,
                 backoff, spider, unit, used_closed, tx, tx_count, loops, sal>>

\* self.running_futures[task_id] = future
SubmitRegister(th) ==
  /\ op[th] = "submit_task" /\ pc[th] = "register"
  /\ running_futures' = Put(running_futures, arg[th])
  /\ pc' = [pc EXCEPT ![th] = "mark"]
  /\ UNCHANGED <<tasks, fut, workQueue, wtask, wpc, wunit, stats, running,
                 shutdown_event, enable_schedule, schedule_jobs, starts, op, arg, todo,
                 last, bodyRuns, interrupted, submitBegun, cancelledFirst, backend,
                 job_listings, db_stats, db_last, db_batch, client, cookie_manager,
                 cookies, max_retry, s_pc, attempt, depth, cookie_refreshed, sent,
                 reqlog, lastreq, s_ret, calls, max_attempts, retry_exceptions, r_pc,
                 attempt_count, invocations, sleeps, last_exception, all_retryable,
                 r_ret, proxies, current_index, p_last, h_max, h_pc, h_attempt, a_left,
                 h_proxy, wire, h_last, saw_other, h_ret, enable_deduplication,
                 seen_job_ids, dp_pc, dp_arg, dp_out, dp_stats, m_stats,
                 last_success_time, m_health, v_data, v_result, v_done, crawl,
                 crawl_log, ro, export, add_records, notion, ua, ua_sel, processed,
                 backoff, spider, unit, used_closed, tx, tx_count, loops, sal>>

\* task.status = TaskStatus.RUNNING
SubmitMark(th) ==
  /\ op[th] = "submit_task" /\ pc[th] = "mark"
  /\ tasks' = [tasks EXCEPT ![arg[th]].status = RUNNING]
  /\ pc' = [pc EXCEPT ![th] = "stamp"]
  /\ UNCHANGED <<running_futures, fut, workQueue, wtask, wpc, wunit, stats, running,
                 shutdown_event, enable_schedule, schedule_jobs, starts, op, arg, todo,
                 last, bodyRuns, interrupted, submitBegun, cancelledFirst, backend,
                 job_listings, db_stats, db_last, db_batch, client, cookie_manager,
                 cookies, max_retry, s_pc, attempt, depth, cookie_refreshed, sent,
                 reqlog, lastreq, s_ret, calls, max_attempts, retry_exceptions, r_pc,
                 attempt_count, invocations, sleeps, last_exception, all_retryable,
                 r_ret, proxies, current_index, p_last, h_max, h_pc, h_attempt, a_left,
                 h_proxy, wire, h_last, saw_other, h_ret, enable_deduplication,
                 seen_job_ids, dp_pc, dp_arg, dp_out, dp_stats, m_stats,
                 last_success_time, m_health, v_data, v_result, v_done, crawl,
                 crawl_log, ro, export, add_records, notion, ua, ua_sel, processed,
                 backoff, spider, unit, used_closed, tx, tx_count, loops, sal>>

\* task.started_at = datetime.now(); return True
SubmitStamp(th) ==
  /\ op[th] = "submit_task" /\ pc[th] = "stamp"
  /\ tasks' = [tasks EXCEPT ![arg[th]].started_at = Now]
  /\ pc' = [pc EXCEPT ![th] = "-"]
  /\ op' = [op EXCEPT ![th] = Idle(th)]
  /\ last' = IF th = "main" THEN [last EXCEPT !.ret = True] ELSE last
  /\ UNCHANGED <<running_futures, fut, workQueue, wtask, wpc, wunit, stats, running,
                 shutdown_event, enable_schedule, schedule_jobs, starts, arg, todo,
                 bodyRuns, interrupted, submitBegun, cancelledFirst, backend,
                 job_listings, db_stats, db_last, db_batch, client, cookie_manager,
                 cookies, max_retry, s_pc, attempt, depth, cookie_refreshed, sent,
                 reqlog, lastreq, s_ret, calls, max_attempts, retry_exceptions, r_pc,
                 attempt_count, invocations, sleeps, last_exception, all_retryable,
                 r_ret, proxies, current_index, p_last, h_max, h_pc, h_attempt, a_left,
                 h_proxy, wire, h_last, saw_other, h_ret, enable_deduplication,
                 seen_job_ids, dp_pc, dp_arg, dp_out, dp_stats, m_stats,
                 last_success_time, m_health, v_data, v_result, v_done, crawl,
                 crawl_log, ro, export, add_records, notion, ua, ua_sel, processed,
                 backoff, spider, unit, used_closed, tx, tx_count, loops, sal>>

\* ------------------------------------------------------------ the worker pool
\* A pool thread takes the oldest work item; an item whose Future was cancelled
\* is dropped, any other starts _execute_task(task_id).
WorkerPickup(w) ==
  /\ wtask[w] = 0 /\ workQueue # <<>>
  /\ LET t == Head(workQueue)
     IN /\ workQueue' = Tail(workQueue)
        /\ IF fut[t] = "cancelled"
           THEN UNCHANGED <<fut, wtask, wpc, wunit, bodyRuns>>
           ELSE /\ fut' = [fut EXCEPT ![t] = "running"]
                /\ wtask' = [wtask EXCEPT ![w] = t]
                /\ wpc' = [wpc EXCEPT ![w] = "loop"]
                /\ wunit' = [wunit EXCEPT ![w] = 0]
                /\ bodyRuns' = [bodyRuns EXCEPT ![t] = @ + 1]
  /\ UNCHANGED <<tasks, running_futures, stats, running, shutdown_event,
                 enable_schedule, schedule_jobs, starts, op, pc, arg, todo, last,
                 interrupted, submitBegun, cancelledFirst, backend, job_listings,
                 db_stats, db_last, db_batch, client, cookie_manager, cookies,
                 max_retry, s_pc, attempt, depth, cookie_refreshed, sent, reqlog,
                 lastreq, s_ret, calls, max_attempts, retry_exceptions, r_pc,
                 attempt_count, invocations, sleeps, last_exception, all_retryable,
                 r_ret, proxies, current_index, p_last, h_max, h_pc, h_attempt, a_left,
                 h_proxy, wire, h_last, saw_other, h_ret, enable_deduplication,
                 seen_job_ids, dp_pc, dp_arg, dp_out, dp_stats, m_stats,
                 last_success_time, m_health, v_data, v_result, v_done, crawl,
                 crawl_log, ro, export, add_records, notion, ua, ua_sel, processed,
                 backoff, spider, unit, used_closed, tx, tx_count, loops, sal>>

\* what the body does at the head of a (keyword, city) unit, given the signal
UnitGate(signalled) == IF signalled THEN "cancel" ELSE "crawl"

\* for keyword ... for city ...: if self._shutdown_event.is_set(): CANCELLED, return
WorkerNextUnit(w) ==
  /\ wtask[w] # 0 /\ wpc[w] = "loop"
  /\ wunit[w] < tasks[wtask[w]].units
  /\ IF UnitGate(shutdown_event) = "cancel"
     THEN /\ tasks' = [tasks EXCEPT ![wtask[w]].status = CANCELLED]
          /\ interrupted' = interrupted \cup {wtask[w]}
          /\ wpc' = [wpc EXCEPT ![w] = "finally"]
     ELSE /\ wpc' = [wpc EXCEPT ![w] = "crawl"]
          /\ UNCHANGED <<tasks, interrupted>>
  /\ UNCHANGED <<running_futures, fut, workQueue, wtask, wunit, stats, running,
                 shutdown_event, enable_schedule, schedule_jobs, starts, op, pc, arg,
                 todo, last, bodyRuns, submitBegun, cancelledFirst, backend,
                 job_listings, db_stats, db_last, db_batch, client, cookie_manager,
                 cookies, max_retry, s_pc, attempt, depth, cookie_refreshed, sent,
                 reqlog, lastreq, s_ret, calls, max_attempts, retry_exceptions, r_pc,
                 attempt_count, invocations, sleeps, last_exception, all_retryable,
                 r_ret, proxies, current_index, p_last, h_max, h_pc, h_attempt, a_left,
                 h_proxy, wire, h_last, saw_other, h_ret, enable_deduplication,
                 seen_job_ids, dp_pc, dp_arg, dp_out, dp_stats, m_stats,
                 last_success_time, m_health, v_data, v_result, v_done, crawl,
                 crawl_log, ro, export, add_records, notion, ua, ua_sel, processed,
                 backoff, spider, unit, used_closed, tx, tx_count, loops, sal>>

\* the unit's crawl, process_batch and batch_insert_job_listings returned
WorkerUnitDone(w) ==
  /\ wtask[w] # 0 /\ wpc[w] = "crawl"
  /\ wunit' = [wunit EXCEPT ![w] = @ + 1]
  /\ wpc' = [wpc EXCEPT ![w] = "loop"]
  /\ UNCHANGED <<tasks, running_futures, fut, workQueue, wtask, stats, running,
                 shutdown_event, enable_schedule, schedule_jobs, starts, op, pc, arg,
                 todo, last, bodyRuns, interrupted, submitBegun, cancelledFirst,
                 backend, job_listings, db_stats, db_last, db_batch, client,
                 cookie_manager, cookies, max_retry, s_pc, attempt, depth,
                 cookie_refreshed, sent, reqlog, lastreq, s_ret, calls, max_attempts,
                 retry_exceptions, r_pc, attempt_count, invocations, sleeps,
                 last_exception, all_retryable, r_ret, proxies, current_index, p_last,
                 h_max, h_pc, h_attempt, a_left, h_proxy, wire, h_last, saw_other,
                 h_ret, enable_deduplication, seen_job_ids, dp_pc, dp_arg, dp_out,
                 dp_stats, m_stats, last_success_time, m_health, v_data, v_result,
                 v_done, crawl, crawl_log, ro, export, add_records, notion, ua, ua_sel,
                 processed, backoff, spider, unit, used_closed, tx, tx_count, loops,
                 sal>>

\* one of them raised
WorkerUnitRaises(w) ==
  /\ wtask[w] # 0 /\ wpc[w] = "crawl"
  /\ wpc' = [wpc EXCEPT ![w] = "except"]
  /\ UNCHANGED <<tasks, running_futures, fut, workQueue, wtask, wunit, stats, running,
                 shutdown_event, enable_schedule, schedule_jobs, starts, op, pc, arg,
                 todo, last, bodyRuns, interrupted, submitBegun, cancelledFirst,
                 backend, job_listings, db_stats, db_last, db_batch, client,
                 cookie_manager, cookies, max_retry, s_pc, attempt, depth,
                 cookie_refreshed, sent, reqlog, lastreq, s_ret, calls, max_attempts,
                 retry_exceptions, r_pc, attempt_count, invocations, sleeps,
                 last_exception, all_retryable, r_ret, proxies, current_index, p_last,
                 h_max, h_pc, h_attempt, a_left, h_proxy, wire, h_last, saw_other,
                 h_ret, enable_deduplication, seen_job_ids, dp_pc, dp_arg, dp_out,
                 dp_stats, m_stats, last_success_time, m_health, v_data, v_result,
                 v_done, crawl, crawl_log, ro, export, add_records, notion, ua, ua_sel,
                 processed, backoff, spider, unit, used_closed, tx, tx_count, loops,
                 sal>>

\* after the loops: task.status = TaskStatus.COMPLETED
WorkerMarkCompleted(w) ==
  /\ wtask[w] # 0 /\ wpc[w] = "loop"
  /\ wunit[w] = tasks[wtask[w]].units
  /\ tasks' = [tasks EXCEPT ![wtask[w]].status = COMPLETED]
  /\ wpc' = [wpc EXCEPT ![w] = "results"]
  /\ UNCHANGED <<running_futures, fut, workQueue, wtask, wunit, stats, running,
                 shutdown_event, enable_schedule, schedule_jobs, starts, op, pc, arg,
                 todo, last, bodyRuns, interrupted, submitBegun, cancelledFirst,
                 backend, job_listings, db_stats, db_last, db_batch, client,
                 cookie_manager, cookies, max_retry, s_pc, attempt, depth,
                 cookie_refreshed, sent, reqlog, lastreq, s_ret, calls, max_attempts,
                 retry_exceptions, r_pc, attempt_count, invocations, sleeps,
                 last_exception, all_retryable, r_ret, proxies, current_index, p_last,
                 h_max, h_pc, h_attempt, a_left, h_proxy, wire, h_last, saw_other,
                 h_ret, enable_deduplication, seen_job_ids, dp_pc, dp_arg, dp_out,
                 dp_stats, m_stats, last_success_time, m_health, v_data, v_result,
                 v_done, crawl, crawl_log, ro, export, add_records, notion, ua, ua_sel,
                 processed, backoff, spider, unit, used_closed, tx, tx_count, loops,
                 sal>>

\* task.completed_at = ...; task.results = {...}; self.stats.completed_tasks += 1
WorkerResults(w) ==
  /\ wtask[w] # 0 /\ wpc[w] = "results"
  /\ tasks' = [tasks EXCEPT ![wtask[w]].completed_at = Now, ![wtask[w]].results = TRUE]
  /\ stats' = [stats EXCEPT !.completed_tasks = @ + 1]
  /\ wpc' = [wpc EXCEPT ![w] = "finally"]
  /\ UNCHANGED <<running_futures, fut, workQueue, wtask, wunit, running,
                 shutdown_event, enable_schedule, schedule_jobs, starts, op, pc, arg,
                 todo, last, bodyRuns, interrupted, submitBegun, cancelledFirst,
                 backend, job_listings, db_stats, db_last, db_batch, client,
                 cookie_manager, cookies, max_retry, s_pc, attempt, depth,
                 cookie_refreshed, sent, reqlog, lastreq, s_ret, calls, max_attempts,
                 retry_exceptions, r_pc, attempt_count, invocations, sleeps,
                 last_exception, all_retryable, r_ret, proxies, current_index, p_last,
                 h_max, h_pc, h_attempt, a_left, h_proxy, wire, h_last, saw_other,
                 h_ret, enable_deduplication, seen_job_ids, dp_pc, dp_arg, dp_out,
                 dp_stats, m_stats, last_success_time, m_health, v_data, v_result,
                 v_done, crawl, crawl_log, ro, export, add_records, notion, ua, ua_sel,
                 processed, backoff, spider, unit, used_closed, tx, tx_count, loops,
                 sal>>

\* what the except clause leaves in the task
Caught(task) ==
  [task EXCEPT !.status = FAILED, !.completed_at = Now, !.error_message = "str(e)"]

\* except Exception as e: FAILED, completed_at, error_message, failed_tasks += 1
WorkerExcept(w) ==
  /\ wtask[w] # 0 /\ wpc[w] = "except"
  /\ tasks' = [tasks EXCEPT ![wtask[w]] = Caught(@)]
  /\ stats' = [stats EXCEPT !.failed_tasks = @ + 1]
  /\ wpc' = [wpc EXCEPT ![w] = "finally"]
  /\ UNCHANGED <<running_futures, fut, workQueue, wtask, wunit, running,
                 shutdown_event, enable_schedule, schedule_jobs, starts, op, pc, arg,
                 todo, last, bodyRuns, interrupted, submitBegun, cancelledFirst,
                 backend, job_listings, db_stats, db_last, db_batch, client,
                 cookie_manager, cookies, max_retry, s_pc, attempt, depth,
                 cookie_refreshed, sent, reqlog, lastreq, s_ret, calls, max_attempts,
                 retry_exceptions, r_pc, attempt_count, invocations, sleeps,
                 last_exception, all_retryable, r_ret, proxies, current_index, p_last,
                 h_max, h_pc, h_attempt, a_left, h_proxy, wire, h_last, saw_other,
                 h_ret, enable_deduplication, seen_job_ids, dp_pc, dp_arg, dp_out,
                 dp_stats, m_stats, last_success_time, m_health, v_data, v_result,
                 v_done, crawl, crawl_log, ro, export, add_records, notion, ua, ua_sel,
                 processed, backoff, spider, unit, used_closed, tx, tx_count, loops,
                 sal>>

\* finally: if task_id in self.running_futures: del self.running_futures[task_id]
WorkerFinally(w) ==
  /\ wtask[w] # 0 /\ wpc[w] = "finally"
  /\ running_futures' = Without(running_futures, wtask[w])
  /\ fut' = [fut EXCEPT ![wtask[w]] = "finished"]
  /\ wtask' = [wtask EXCEPT ![w] = 0]
  /\ wpc' = [wpc EXCEPT ![w] = "idle"]
  /\ UNCHANGED <<tasks, workQueue, wunit, stats, running, shutdown_event,
                 enable_schedule, schedule_jobs, starts, op, pc, arg, todo, last,
                 bodyRuns, interrupted, submitBegun, cancelledFirst, backend,
                 job_listings, db_stats, db_last, db_batch, client, cookie_manager,
                 cookies, max_retry, s_pc, attempt, depth, cookie_refreshed, sent,
                 reqlog, lastreq, s_ret, calls, max_attempts, retry_exceptions, r_pc,
                 attempt_count, invocations, sleeps, last_exception, all_retryable,
                 r_ret, proxies, current_index, p_last, h_max, h_pc, h_attempt, a_left,
                 h_proxy, wire, h_last, saw_other, h_ret, enable_deduplication,
                 seen_job_ids, dp_pc, dp_arg, dp_out, dp_stats, m_stats,
                 last_success_time, m_health, v_data, v_result, v_done, crawl,
                 crawl_log, ro, export, add_records, notion, ua, ua_sel, processed,
                 backoff, spider, unit, used_closed, tx, tx_count, loops, sal>>

\* ------------------------------------------------------------ cancel_task
\* cancel_task runs on the main thread: called by the client, or by shutdown for
\* every key of running_futures.

\* where the caller of cancel_task goes on when it returns
CancelReturn ==
  IF op["main"] = "shutdown"
  THEN /\ pc' = [pc EXCEPT !["main"] = "sd_next"]
       /\ UNCHANGED op
  ELSE /\ op' = [op EXCEPT !["main"] = "idle"]
       /\ pc' = [pc EXCEPT !["main"] = "-"]

\* if task.is_completed: return False
CancelCheck(t) ==
  /\ arg' = [arg EXCEPT !["main"] = t]
  /\ IF is_completed(t)
     THEN /\ CancelReturn
          /\ last' = [NoCall EXCEPT !.call = "cancel_task", !.task = t,
                        !.pre = tasks[t].status, !.started = bodyRuns[t] > 0,
                        !.unsubmitted = t \notin submitBegun, !.ret = False]
     ELSE /\ op' = [op EXCEPT !["main"] = IF @ = "idle" THEN "cancel_task" ELSE @]
          /\ pc' = [pc EXCEPT !["main"] = "c_test"]
          /\ last' = [NoCall EXCEPT !.call = "cancel_task", !.task = t,
                        !.pre = tasks[t].status, !.started = bodyRuns[t] > 0,
                        !.ret = InProgress]

MainCancel(t) ==
  /\ op["main"] = "idle"
  /\ t \in DOMAIN tasks
  /\ CancelCheck(t)
  /\ UNCHANGED <<tasks, running_futures, fut, workQueue, wtask, wpc, wunit, stats,
                 running, shutdown_event, enable_schedule, schedule_jobs, starts, todo,
                 bodyRuns, interrupted, submitBegun, cancelledFirst, backend,
                 job_listings, db_stats, db_last, db_batch, client, cookie_manager,
                 cookies, max_retry, s_pc, attempt, depth, cookie_refreshed, sent,
                 reqlog, lastreq, s_ret, calls, max_attempts, retry_exceptions, r_pc,
                 attempt_count, invocations, sleeps, last_exception, all_retryable,
                 r_ret, proxies, current_index, p_last, h_max, h_pc, h_attempt, a_left,
                 h_proxy, wire, h_last, saw_other, h_ret, enable_deduplication,
                 seen_job_ids, dp_pc, dp_arg, dp_out, dp_stats, m_stats,
                 last_success_time, m_health, v_data, v_result, v_done, crawl,
                 crawl_log, ro, export, add_records, notion, ua, ua_sel, processed,
                 backoff, spider, unit, used_closed, tx, tx_count, loops, sal>>

\* what cancel_task writes when it cancels
Cancelled(task) == [task EXCEPT !.status = CANCELLED, !.completed_at = Now]

\* Future.cancel(): true for a Future not yet running (or already cancelled)
FutureCancel(f) == f \in {"pending", "cancelled"}

\* Which branch cancel_task takes for a task that is not completed.
CancelBranch(t) ==
  IF t \in Range(running_futures)
  THEN IF FutureCancel(fut[t]) THEN "cancel future" ELSE "refuse"
  ELSE "not submitted"

\* if task_id in self.running_futures: if future.cancel(): CANCELLED ... return True
\*                                     else: return False
\* else: CANCELLED, completed_at, cancelled_tasks += 1, return True
\* (the membership test, the lookup and the branch are taken in one step: the
\* KeyError of a key deleted between the test and the lookup is left out)
CancelAct ==
  /\ op["main"] \in {"cancel_task", "shutdown"} /\ pc["main"] = "c_test"
  /\ LET t == arg["main"]
         b == CancelBranch(t)
     IN /\ IF b = "refuse"
           THEN UNCHANGED <<tasks, stats>>
           ELSE /\ tasks' = [tasks EXCEPT ![t] = Cancelled(@)]
                /\ stats' = [stats EXCEPT !.cancelled_tasks = @ + 1]
        /\ fut' = IF b = "cancel future" THEN [fut EXCEPT ![t] = "cancelled"] ELSE fut
        /\ last' = [last EXCEPT !.ret = IF b = "refuse" THEN False ELSE True,
                                !.unsubmitted = t \notin submitBegun]
        /\ cancelledFirst' = IF b # "refuse" /\ t \notin submitBegun
                             THEN cancelledFirst \cup {t} ELSE cancelledFirst
  /\ CancelReturn
  /\ UNCHANGED <<running_futures, workQueue, wtask, wpc, wunit, running,
                 shutdown_event, enable_schedule, schedule_jobs, starts, arg, todo,
                 bodyRuns, interrupted, submitBegun, backend, job_listings, db_stats,
                 db_last, db_batch, client, cookie_manager, cookies, max_retry, s_pc,
                 attempt, depth, cookie_refreshed, sent, reqlog, lastreq, s_ret, calls,
                 max_attempts, retry_exceptions, r_pc, attempt_count, invocations,
                 sleeps, last_exception, all_retryable, r_ret, proxies, current_index,
                 p_last, h_max, h_pc, h_attempt, a_left, h_proxy, wire, h_last,
                 saw_other, h_ret, enable_deduplication, seen_job_ids, dp_pc, dp_arg,
                 dp_out, dp_stats, m_stats, last_success_time, m_health, v_data,
                 v_result, v_done, crawl, crawl_log, ro, export, add_records, notion,
                 ua, ua_sel, processed, backoff, spider, unit, used_closed, tx,
                 tx_count, loops, sal>>

\* ------------------------------------------------------------ start
\* the two default cron expressions install triggers at 18..21 and at 21..22
DefaultTriggers == 6

\* start and setup_schedule: the flags, the triggers and the schedule_loop
\* thread (the model follows one trigger thread)
Start ==
  /\ op["main"] = "idle"
  /\ last' = [NoCall EXCEPT !.call = "start"]
  /\ IF running
     THEN UNCHANGED <<running, shutdown_event, schedule_jobs, op, starts>>
     ELSE /\ starts < MaxStarts
          /\ starts' = starts + 1
          /\ running' = TRUE
          /\ shutdown_event' = FALSE
          /\ schedule_jobs' = IF enable_schedule THEN DefaultTriggers ELSE schedule_jobs
          /\ op' = [op EXCEPT !["trig"] = IF enable_schedule /\ @ = "off" THEN "loop" ELSE @]
  /\ UNCHANGED <<tasks, running_futures, fut, workQueue, wtask, wpc, wunit, stats,
                 enable_schedule, pc, arg, todo, bodyRuns, interrupted, submitBegun,
                 cancelledFirst, backend, job_listings, db_stats, db_last, db_batch,
                 client, cookie_manager, cookies, max_retry, s_pc, attempt, depth,
                 cookie_refreshed, sent, reqlog, lastreq, s_ret, calls, max_attempts,
                 retry_exceptions, r_pc, attempt_count, invocations, sleeps,
                 last_exception, all_retryable, r_ret, proxies, current_index, p_last,
                 h_max, h_pc, h_attempt, a_left, h_proxy, wire, h_last, saw_other,
                 h_ret, enable_deduplication, seen_job_ids, dp_pc, dp_arg, dp_out,
                 dp_stats, m_stats, last_success_time, m_health, v_data, v_result,
                 v_done, crawl, crawl_log, ro, export, add_records, notion, ua, ua_sel,
                 processed, backoff, spider, unit, used_closed, tx, tx_count, loops,
                 sal>>

\* ------------------------------------------------------------ shutdown
\* if not self._running: return; else the flags and the snapshot of the keys
ShutdownBegin ==
  /\ op["main"] = "idle"
  /\ IF ~running
     THEN /\ last' = [NoCall EXCEPT !.call = "shutdown", !.ret = "returned"]
          /\ UNCHANGED <<running, shutdown_event, todo, op, pc>>
     ELSE /\ running' = FALSE
          /\ shutdown_event' = TRUE
          /\ todo' = running_futures
          /\ op' = [op EXCEPT !["main"] = "shutdown"]
          /\ pc' = [pc EXCEPT !["main"] = "sd_next"]
          /\ last' = [NoCall EXCEPT !.call = "shutdown", !.ret = InProgress]
  /\ UNCHANGED <<tasks, running_futures, fut, workQueue, wtask, wpc, wunit, stats,
                 enable_schedule, schedule_jobs, starts, arg, bodyRuns, interrupted,
                 submitBegun, cancelledFirst, backend, job_listings, db_stats, db_last,
                 db_batch, client, cookie_manager, cookies, max_retry, s_pc, attempt,
                 depth, cookie_refreshed, sent, reqlog, lastreq, s_ret, calls,
                 max_attempts, retry_exceptions, r_pc, attempt_count, invocations,
                 sleeps, last_exception, all_retryable, r_ret, proxies, current_index,
                 p_last, h_max, h_pc, h_attempt, a_left, h_proxy, wire, h_last,
                 saw_other, h_ret, enable_deduplication, seen_job_ids, dp_pc, dp_arg,
                 dp_out, dp_stats, m_stats, last_success_time, m_health, v_data,
                 v_result, v_done, crawl, crawl_log, ro, export, add_records, notion,
                 ua, ua_sel, processed, backoff, spider, unit, used_closed, tx,
                 tx_count, loops, sal>>

\* for task_id in list(self.running_futures.keys()): self.cancel_task(task_id)
ShutdownCancelNext ==
  /\ op["main"] = "shutdown" /\ pc["main"] = "sd_next"
  /\ todo # <<>>
  /\ todo' = Tail(todo)
  /\ CancelCheck(Head(todo))
  /\ UNCHANGED <<tasks, running_futures, fut, workQueue, wtask, wpc, wunit, stats,
                 running, shutdown_event, enable_schedule, schedule_jobs, starts,
                 bodyRuns, interrupted, submitBegun, cancelledFirst, backend,
                 job_listings, db_stats, db_last, db_batch, client, cookie_manager,
                 cookies, max_retry, s_pc, attempt, depth, cookie_refreshed, sent,
                 reqlog, lastreq, s_ret, calls, max_attempts, retry_exceptions, r_pc,
                 attempt_count, invocations, sleeps, last_exception, all_retryable,
                 r_ret, proxies, current_index, p_last, h_max, h_pc, h_attempt, a_left,
                 h_proxy, wire, h_last, saw_other, h_ret, enable_deduplication,
                 seen_job_ids, dp_pc, dp_arg, dp_out, dp_stats, m_stats,
                 last_success_time, m_health, v_data, v_result, v_done, crawl,
                 crawl_log, ro, export, add_records, notion, ua, ua_sel, processed,
                 backoff, spider, unit, used_closed, tx, tx_count, loops, sal>>

\* How self.executor.shutdown(wait=True, timeout=timeout) ends:
\* ThreadPoolExecutor.shutdown(wait=True, *, cancel_futures=False) takes no
\* timeout, the call raises TypeError.
ExecutorShutdown == Raised

\* self.executor.shutdown(wait=True, timeout=timeout); schedule.clear(); uptime
ShutdownDrain ==
  /\ op["main"] = "shutdown" /\ pc["main"] = "sd_next"
  /\ todo = <<>>
  /\ IF ExecutorShutdown = Raised
     THEN /\ last' = [NoCall EXCEPT !.call = "shutdown", !.ret = Raised]
          /\ UNCHANGED schedule_jobs
     ELSE /\ last' = [NoCall EXCEPT !.call = "shutdown", !.ret = "returned"]
          /\ schedule_jobs' = 0
  /\ op' = [op EXCEPT !["main"] = "idle"]
  /\ pc' = [pc EXCEPT !["main"] = "-"]
  /\ UNCHANGED <<tasks, running_futures, fut, workQueue, wtask, wpc, wunit, stats,
                 running, shutdown_event, enable_schedule, starts, arg, todo, bodyRuns,
                 interrupted, submitBegun, cancelledFirst, backend, job_listings,
                 db_stats, db_last, db_batch, client, cookie_manager, cookies,
                 max_retry, s_pc, attempt, depth, cookie_refreshed, sent, reqlog,
                 lastreq, s_ret, calls, max_attempts, retry_exceptions, r_pc,
                 attempt_count, invocations, sleeps, last_exception, all_retryable,
                 r_ret, proxies, current_index, p_last, h_max, h_pc, h_attempt, a_left,
                 h_proxy, wire, h_last, saw_other, h_ret, enable_deduplication,
                 seen_job_ids, dp_pc, dp_arg, dp_out, dp_stats, m_stats,
                 last_success_time, m_health, v_data, v_result, v_done, crawl,
                 crawl_log, ro, export, add_records, notion, ua, ua_sel, processed,
                 backoff, spider, unit, used_closed, tx, tx_count, loops, sal>>

\* ------------------------------------------------------------ wait_for_completion
\* (called without a timeout) while self.running_futures: ... sleep(1)
WaitCall ==
  /\ op["main"] = "idle"
  /\ running_futures # <<>>
  /\ ~shutdown_event
  /\ op' = [op EXCEPT !["main"] = "wait_for_completion"]
  /\ last' = [NoCall EXCEPT !.call = "wait_for_completion", !.ret = InProgress]
  /\ UNCHANGED <<tasks, running_futures, fut, workQueue, wtask, wpc, wunit, stats,
                 running, shutdown_event, enable_schedule, schedule_jobs, starts, pc,
                 arg, todo, bodyRuns, interrupted, submitBegun, cancelledFirst,
                 backend, job_listings, db_stats, db_last, db_batch, client,
                 cookie_manager, cookies, max_retry, s_pc, attempt, depth,
                 cookie_refreshed, sent, reqlog, lastreq, s_ret, calls, max_attempts,
                 retry_exceptions, r_pc, attempt_count, invocations, sleeps,
                 last_exception, all_retryable, r_ret, proxies, current_index, p_last,
                 h_max, h_pc, h_attempt, a_left, h_proxy, wire, h_last, saw_other,
                 h_ret, enable_deduplication, seen_job_ids, dp_pc, dp_arg, dp_out,
                 dp_stats, m_stats, last_success_time, m_health, v_data, v_result,
                 v_done, crawl, crawl_log, ro, export, add_records, notion, ua, ua_sel,
                 processed, backoff, spider, unit, used_closed, tx, tx_count, loops,
                 sal>>

\* the loop ends: return True
WaitDone ==
  /\ op["main"] \in {"idle", "wait_for_completion"}
  /\ running_futures = <<>>
  /\ op' = [op EXCEPT !["main"] = "idle"]
  /\ last' = [NoCall EXCEPT !.call = "wait_for_completion", !.ret = True]
  /\ UNCHANGED <<tasks, running_futures, fut, workQueue, wtask, wpc, wunit, stats,
                 running, shutdown_event, enable_schedule, schedule_jobs, starts, pc,
                 arg, todo, bodyRuns, interrupted, submitBegun, cancelledFirst,
                 backend, job_listings, db_stats, db_last, db_batch, client,
                 cookie_manager, cookies, max_retry, s_pc, attempt, depth,
                 cookie_refreshed, sent, reqlog, lastreq, s_ret, calls, max_attempts,
                 retry_exceptions, r_pc, attempt_count, invocations, sleeps,
                 last_exception, all_retryable, r_ret, proxies, current_index, p_last,
                 h_max, h_pc, h_attempt, a_left, h_proxy, wire, h_last, saw_other,
                 h_ret, enable_deduplication, seen_job_ids, dp_pc, dp_arg, dp_out,
                 dp_stats, m_stats, last_success_time, m_health, v_data, v_result,
                 v_done, crawl, crawl_log, ro, export, add_records, notion, ua, ua_sel,
                 processed, backoff, spider, unit, used_closed, tx, tx_count, loops,
                 sal>>

\* if self._shutdown_event.is_set(): return False
WaitShutdown ==
  /\ op["main"] \in {"idle", "wait_for_completion"}
  /\ running_futures # <<>> /\ shutdown_event
  /\ op' = [op EXCEPT !["main"] = "idle"]
  /\ last' = [NoCall EXCEPT !.call = "wait_for_completion", !.ret = False]
  /\ UNCHANGED <<tasks, running_futures, fut, workQueue, wtask, wpc, wunit, stats,
                 running, shutdown_event, enable_schedule, schedule_jobs, starts, pc,
                 arg, todo, bodyRuns, interrupted, submitBegun, cancelledFirst,
                 backend, job_listings, db_stats, db_last, db_batch, client,
                 cookie_manager, cookies, max_retry, s_pc, attempt, depth,
                 cookie_refreshed, sent, reqlog, lastreq, s_ret, calls, max_attempts,
                 retry_exceptions, r_pc, attempt_count, invocations, sleeps,
                 last_exception, all_retryable, r_ret, proxies, current_index, p_last,
                 h_max, h_pc, h_attempt, a_left, h_proxy, wire, h_last, saw_other,
                 h_ret, enable_deduplication, seen_job_ids, dp_pc, dp_arg, dp_out,
                 dp_stats, m_stats, last_success_time, m_health, v_data, v_result,
                 v_done, crawl, crawl_log, ro, export, add_records, notion, ua, ua_sel,
                 processed, backoff, spider, unit, used_closed, tx, tx_count, loops,
                 sal>>

\* ------------------------------------------------------------ the trigger thread
\* schedule_loop finds a trigger due; scheduled_crawl passes its signal check
\* and sleeps its random delay
TrigFire ==
  /\ op["trig"] = "loop"
  /\ running /\ ~shutdown_event
  /\ schedule_jobs > 0
  /\ op' = [op EXCEPT !["trig"] = "delay"]
  /\ UNCHANGED <<tasks, running_futures, fut, workQueue, wtask, wpc, wunit, stats,
                 running, shutdown_event, enable_schedule, schedule_jobs, starts, pc,
                 arg, todo, last, bodyRuns, interrupted, submitBegun, cancelledFirst,
                 backend, job_listings, db_stats, db_last, db_batch, client,
                 cookie_manager, cookies, max_retry, s_pc, attempt, depth,
                 cookie_refreshed, sent, reqlog, lastreq, s_ret, calls, max_attempts,
                 retry_exceptions, r_pc, attempt_count, invocations, sleeps,
                 last_exception, all_retryable, r_ret, proxies, current_index, p_last,
                 h_max, h_pc, h_attempt, a_left, h_proxy, wire, h_last, saw_other,
                 h_ret, enable_deduplication, seen_job_ids, dp_pc, dp_arg, dp_out,
                 dp_stats, m_stats, last_success_time, m_health, v_data, v_result,
                 v_done, crawl, crawl_log, ro, export, add_records, notion, ua, ua_sel,
                 processed, backoff, spider, unit, used_closed, tx, tx_count, loops,
                 sal>>

\* task_id = self.create_task(keywords, cities): the keywords and cities of the
\* search configuration, neither of them empty
TrigCreate ==
  /\ op["trig"] = "delay"
  /\ create_task("trig", MaxUnits)
  /\ op' = [op EXCEPT !["trig"] = "submit_task"]
  /\ pc' = [pc EXCEPT !["trig"] = "check"]
  /\ arg' = [arg EXCEPT !["trig"] = NextId]
  /\ UNCHANGED <<running_futures, fut, workQueue, wtask, wpc, wunit, running,
                 shutdown_event, enable_schedule, schedule_jobs, starts, todo, last,
                 bodyRuns, interrupted, submitBegun, cancelledFirst, backend,
                 job_listings, db_stats, db_last, db_batch, client, cookie_manager,
                 cookies, max_retry, s_pc, attempt, depth, cookie_refreshed, sent,
                 reqlog, lastreq, s_ret, calls, max_attempts, retry_exceptions, r_pc,
                 attempt_count, invocations, sleeps, last_exception, all_retryable,
                 r_ret, proxies, current_index, p_last, h_max, h_pc, h_attempt, a_left,
                 h_proxy, wire, h_last, saw_other, h_ret, enable_deduplication,
                 seen_job_ids, dp_pc, dp_arg, dp_out, dp_stats, m_stats,
                 last_success_time, m_health, v_data, v_result, v_done, crawl,
                 crawl_log, ro, export, add_records, notion, ua, ua_sel, processed,
                 backoff, spider, unit, used_closed, tx, tx_count, loops, sal>>

\* while self._running and not self._shutdown_event.is_set()
TrigExit ==
  /\ op["trig"] = "loop"
  /\ ~running \/ shutdown_event
  /\ op' = [op EXCEPT !["trig"] = "off"]
  /\ UNCHANGED <<tasks, running_futures, fut, workQueue, wtask, wpc, wunit, stats,
                 running, shutdown_event, enable_schedule, schedule_jobs, starts, pc,
                 arg, todo, last, bodyRuns, interrupted, submitBegun, cancelledFirst,
                 backend, job_listings, db_stats, db_last, db_batch, client,
                 cookie_manager, cookies, max_retry, s_pc, attempt, depth,
                 cookie_refreshed, sent, reqlog, lastreq, s_ret, calls, max_attempts,
                 retry_exceptions, r_pc, attempt_count, invocations, sleeps,
                 last_exception, all_retryable, r_ret, proxies, current_index, p_last,
                 h_max, h_pc, h_attempt, a_left, h_proxy, wire, h_last, saw_other,
                 h_ret, enable_deduplication, seen_job_ids, dp_pc, dp_arg, dp_out,
                 dp_stats, m_stats, last_success_time, m_health, v_data, v_result,
                 v_done, crawl, crawl_log, ro, export, add_records, notion, ua, ua_sel,
                 processed, backoff, spider, unit, used_closed, tx, tx_count, loops,
                 sal>>

\* ------------------------------------------------------------ the scheduler
SchedNext ==
  \/ CreateTask(MaxUnits)
  \/ \E t \in TaskIds : MainSubmit(t)
  \/ TrigSubmit
  \/ \E th \in Threads : SubmitDispatch(th)
  \/ \E th \in Threads : SubmitRegister(th)
  \/ \E th \in Threads : SubmitMark(th)
  \/ \E th \in Threads : SubmitStamp(th)
  \/ \E w \in Workers : WorkerPickup(w)
  \/ \E w \in Workers : WorkerNextUnit(w)
  \/ \E w \in Workers : WorkerUnitDone(w)
  \/ \E w \in Workers : WorkerUnitRaises(w)
  \/ \E w \in Workers : WorkerMarkCompleted(w)
  \/ \E w \in Workers : WorkerResults(w)
  \/ \E w \in Workers : WorkerExcept(w)
  \/ \E w \in Workers : WorkerFinally(w)
  \/ \E t \in TaskIds : MainCancel(t)
  \/ CancelAct
  \/ Start
  \/ ShutdownBegin
  \/ ShutdownCancelNext
  \/ ShutdownDrain
  \/ WaitCall
  \/ WaitDone
  \/ WaitShutdown
  \/ TrigFire
  \/ TrigCreate
  \/ TrigExit

\* ---------------------------------------------------- main_new.py, --once mode
\* run_once creates the scheduler with max_workers=1, enable_schedule=False and
\* never starts it
RunOnceInit ==
  /\ ro = [pc |-> "start", task |-> 0, success |-> FALSE, exit_code |-> 0]
  /\ ~enable_schedule

\* scheduler.run_once: task_id = self.create_task(keywords, cities)
RunOnceCreate(n) ==
  /\ ro.pc = "start"
  /\ create_task("main", n)
  /\ ro' = [ro EXCEPT !.pc = "submit", !.task = NextId]
  /\ UNCHANGED <<running_futures, fut, workQueue, wtask, wpc, wunit, running,
                 shutdown_event, enable_schedule, schedule_jobs, starts, op, pc, arg,
                 todo, last, bodyRuns, interrupted, submitBegun, cancelledFirst,
                 backend, job_listings, db_stats, db_last, db_batch, client,
                 cookie_manager, cookies, max_retry, s_pc, attempt, depth,
                 cookie_refreshed, sent, reqlog, lastreq, s_ret, calls, max_attempts,
                 retry_exceptions, r_pc, attempt_count, invocations, sleeps,
                 last_exception, all_retryable, r_ret, proxies, current_index, p_last,
                 h_max, h_pc, h_attempt, a_left, h_proxy, wire, h_last, saw_other,
                 h_ret, enable_deduplication, seen_job_ids, dp_pc, dp_arg, dp_out,
                 dp_stats, m_stats, last_success_time, m_health, v_data, v_result,
                 v_done, crawl, crawl_log, export, add_records, notion, ua, ua_sel,
                 processed, backoff, spider, unit, used_closed, tx, tx_count, loops,
                 sal>>

\* scheduler.run_once: self.submit_task(task_id)
RunOnceSubmit ==
  /\ ro.pc = "submit"
  /\ op["main"] = "idle"
  /\ SubmitCheck("main", ro.task)
  /\ ro' = [ro EXCEPT !.pc = "submitted"]
  /\ UNCHANGED <<tasks, running_futures, fut, workQueue, wtask, wpc, wunit, stats,
                 running, shutdown_event, enable_schedule, schedule_jobs, starts, todo,
                 last, bodyRuns, interrupted, cancelledFirst, backend, job_listings,
                 db_stats, db_last, db_batch, client, cookie_manager, cookies,
                 max_retry, s_pc, attempt, depth, cookie_refreshed, sent, reqlog,
                 lastreq, s_ret, calls, max_attempts, retry_exceptions, r_pc,
                 attempt_count, invocations, sleeps, last_exception, all_retryable,
                 r_ret, proxies, current_index, p_last, h_max, h_pc, h_attempt, a_left,
                 h_proxy, wire, h_last, saw_other, h_ret, enable_deduplication,
                 seen_job_ids, dp_pc, dp_arg, dp_out, dp_stats, m_stats,
                 last_success_time, m_health, v_data, v_result, v_done, crawl,
                 crawl_log, export, add_records, notion, ua, ua_sel, processed,
                 backoff, spider, unit, used_closed, tx, tx_count, loops, sal>>

\* success = scheduler.wait_for_completion(timeout=3600): running_futures is
\* found empty, return True
RunOnceWaitDone ==
  /\ ro.pc = "submitted"
  /\ op["main"] = "idle"
  /\ running_futures = <<>>
  /\ ro' = [ro EXCEPT !.pc = "waited", !.success = TRUE]
  /\ UNCHANGED <<tasks, running_futures, fut, workQueue, wtask, wpc, wunit, stats,
                 running, shutdown_event, enable_schedule, schedule_jobs, starts, op,
                 pc, arg, todo, last, bodyRuns, interrupted, submitBegun,
                 cancelledFirst, backend, job_listings, db_stats, db_last, db_batch,
                 client, cookie_manager, cookies, max_retry, s_pc, attempt, depth,
                 cookie_refreshed, sent, reqlog, lastreq, s_ret, calls, max_attempts,
                 retry_exceptions, r_pc, attempt_count, invocations, sleeps,
                 last_exception, all_retryable, r_ret, proxies, current_index, p_last,
                 h_max, h_pc, h_attempt, a_left, h_proxy, wire, h_last, saw_other,
                 h_ret, enable_deduplication, seen_job_ids, dp_pc, dp_arg, dp_out,
                 dp_stats, m_stats, last_success_time, m_health, v_data, v_result,
                 v_done, crawl, crawl_log, export, add_records, notion, ua, ua_sel,
                 processed, backoff, spider, unit, used_closed, tx, tx_count, loops,
                 sal>>

\* wait_for_completion: the hour has passed with a future still registered,
\* return False
RunOnceWaitTimeout ==
  /\ ro.pc = "submitted"
  /\ op["main"] = "idle"
  /\ running_futures # <<>>
  /\ ro' = [ro EXCEPT !.pc = "waited", !.success = FALSE]
  /\ UNCHANGED <<tasks, running_futures, fut, workQueue, wtask, wpc, wunit, stats,
                 running, shutdown_event, enable_schedule, schedule_jobs, starts, op,
                 pc, arg, todo, last, bodyRuns, interrupted, submitBegun,
                 cancelledFirst, backend, job_listings, db_stats, db_last, db_batch,
                 client, cookie_manager, cookies, max_retry, s_pc, attempt, depth,
                 cookie_refreshed, sent, reqlog, lastreq, s_ret, calls, max_attempts,
                 retry_exceptions, r_pc, attempt_count, invocations, sleeps,
                 last_exception, all_retryable, r_ret, proxies, current_index, p_last,
                 h_max, h_pc, h_attempt, a_left, h_proxy, wire, h_last, saw_other,
                 h_ret, enable_deduplication, seen_job_ids, dp_pc, dp_arg, dp_out,
                 dp_stats, m_stats, last_success_time, m_health, v_data, v_result,
                 v_done, crawl, crawl_log, export, add_records, notion, ua, ua_sel,
                 processed, backoff, spider, unit, used_closed, tx, tx_count, loops,
                 sal>>

\* get_task and the log line; scheduler.shutdown(), which returns at once as
\* the scheduler was never started; return success; sys.exit(0 if success else 1)
RunOnceExit ==
  /\ ro.pc = "waited"
  /\ ~running
  /\ ro' = [ro EXCEPT !.pc = "exited", !.exit_code = IF ro.success THEN 0 ELSE 1]
  /\ UNCHANGED <<tasks, running_futures, fut, workQueue, wtask, wpc, wunit, stats,
                 running, shutdown_event, enable_schedule, schedule_jobs, starts, op,
                 pc, arg, todo, last, bodyRuns, interrupted, submitBegun,
                 cancelledFirst, backend, job_listings, db_stats, db_last, db_batch,
                 client, cookie_manager, cookies, max_retry, s_pc, attempt, depth,
                 cookie_refreshed, sent, reqlog, lastreq, s_ret, calls, max_attempts,
                 retry_exceptions, r_pc, attempt_count, invocations, sleeps,
                 last_exception, all_retryable, r_ret, proxies, current_index, p_last,
                 h_max, h_pc, h_attempt, a_left, h_proxy, wire, h_last, saw_other,
                 h_ret, enable_deduplication, seen_job_ids, dp_pc, dp_arg, dp_out,
                 dp_stats, m_stats, last_success_time, m_health, v_data, v_result,
                 v_done, crawl, crawl_log, export, add_records, notion, ua, ua_sel,
                 processed, backoff, spider, unit, used_closed, tx, tx_count, loops,
                 sal>>

RunOnceNext ==
  \/ \E n \in 1..MaxUnits : RunOnceCreate(n)
  \/ RunOnceSubmit
  \/ SubmitDispatch("main")
  \/ SubmitRegister("main")
  \/ SubmitMark("main")
  \/ SubmitStamp("main")
  \/ \E w \in Workers : WorkerPickup(w)
  \/ \E w \in Workers : WorkerNextUnit(w)
  \/ \E w \in Workers : WorkerUnitDone(w)
  \/ \E w \in Workers : WorkerUnitRaises(w)
  \/ \E w \in Workers : WorkerMarkCompleted(w)
  \/ \E w \in Workers : WorkerResults(w)
  \/ \E w \in Workers : WorkerExcept(w)
  \/ \E w \in Workers : WorkerFinally(w)
  \/ RunOnceWaitDone
  \/ RunOnceWaitTimeout
  \/ RunOnceExit

\* ------------------------------------------------------------ DatabaseManager
\* _build_database_url: sqlite, postgresql, or mysql+pymysql by default
Backends == {"sqlite", "mysql", "postgresql"}

\* job_id values of job_data; 0 stands for a job_data without job_id
JobIds == 1..MaxJobIds

\* The text of the IntegrityError the driver of each backend raises for a
\* violated constraint of table job_listings (job_id is unique and not null).
ErrorText(b, constraint) ==
  IF constraint = "unique"
  THEN CASE b = "sqlite" -> "UNIQUE constraint failed: job_listings.job_id"
         [] b = "mysql" -> "Duplicate entry for key job_id"
         [] b = "postgresql" -> "duplicate key value violates unique constraint"
  ELSE CASE b = "sqlite" -> "NOT NULL constraint failed: job_listings.job_id"
         [] b = "mysql" -> "Column job_id cannot be null"
         [] b = "postgresql" -> "null value in column job_id violates not-null constraint"

\* "Duplicate entry" in str(e) or "UNIQUE constraint failed" in str(e)
IsDuplicateText(msg) ==
  msg \in {"UNIQUE constraint failed: job_listings.job_id", "Duplicate entry for key job_id"}

\* session.add(job_listing); session.flush(): the constraint the row violates
Violates(rows, job_id) ==
  IF job_id = 0 THEN "not null"
  ELSE IF job_id \in Range(rows) THEN "unique"
  ELSE "none"

\* insert_job_listing: True and the row committed by get_session; or the
\* IntegrityError rolled back by get_session and, for a duplicate, False; any
\* other error is raised (retry_on_database_error retries none of these)
insert_job_listing(job_id) ==
  LET v == Violates(job_listings, job_id)
      outcome == IF v = "none" THEN True
                 ELSE IF IsDuplicateText(ErrorText(backend, v)) THEN False
                 ELSE Raised
  IN /\ job_listings' = IF v = "none" THEN Append(job_listings, job_id) ELSE job_listings
     /\ db_stats' = IF v = "none" THEN db_stats + 1 ELSE db_stats
     /\ db_last' = [job_id |-> job_id, stored |-> job_id \in Range(job_listings),
                    before |-> job_listings, ret |-> outcome]

InsertJobListing(job_id) ==
  /\ insert_job_listing(job_id)
  /\ UNCHANGED <<tasks, running_futures, fut, workQueue, wtask, wpc, wunit, stats,
                 running, shutdown_event, enable_schedule, schedule_jobs, starts, op,
                 pc, arg, todo, last, bodyRuns, interrupted, submitBegun,
                 cancelledFirst, backend, db_batch, client, cookie_manager, cookies,
                 max_retry, s_pc, attempt, depth, cookie_refreshed, sent, reqlog,
                 lastreq, s_ret, calls, max_attempts, retry_exceptions, r_pc,
                 attempt_count, invocations, sleeps, last_exception, all_retryable,
                 r_ret, proxies, current_index, p_last, h_max, h_pc, h_attempt, a_left,
                 h_proxy, wire, h_last, saw_other, h_ret, enable_deduplication,
                 seen_job_ids, dp_pc, dp_arg, dp_out, dp_stats, m_stats,
                 last_success_time, m_health, v_data, v_result, v_done, crawl,
                 crawl_log, ro, export, add_records, notion, ua, ua_sel, processed,
                 backoff, spider, unit, used_closed, tx, tx_count, loops, sal>>

\* batch_insert_job_listings, the loop over job_data_list inside one session:
\* flushed holds the rows added and flushed in the open transaction. A record
\* that violates a constraint makes session.rollback() discard every row
\* flushed so far; only a text with "Duplicate entry" counts as skipped, any
\* other IntegrityError is raised (and get_session rolls back again).
RECURSIVE BatchLoop(_, _, _, _, _)
BatchLoop(batch, i, flushed, inserted_count, skipped_count) ==
  IF i > Len(batch)
  THEN [raised |-> FALSE, flushed |-> flushed,
        inserted |-> inserted_count, skipped |-> skipped_count]
  ELSE LET v == Violates(job_listings \o flushed, batch[i])
       IN IF v = "none"
          THEN BatchLoop(batch, i + 1, Append(flushed, batch[i]),
                         inserted_count + 1, skipped_count)
          ELSE IF ErrorText(backend, v) = "Duplicate entry for key job_id"
          THEN BatchLoop(batch, i + 1, <<>>, inserted_count, skipped_count + 1)
          ELSE [raised |-> TRUE, flushed |-> <<>>,
                inserted |-> inserted_count, skipped |-> skipped_count]

\* batch_insert_job_listings: (0, 0) for an empty list; otherwise the loop,
\* then total_inserts and the commit of get_session, or the raise
batch_insert_job_listings(batch) ==
  LET r == IF batch = <<>>
           THEN [raised |-> FALSE, flushed |-> <<>>, inserted |-> 0, skipped |-> 0]
           ELSE BatchLoop(batch, 1, <<>>, 0, 0)
  IN /\ job_listings' = job_listings \o r.flushed
     /\ db_stats' = IF r.raised THEN db_stats ELSE db_stats + r.inserted
     /\ db_batch' = [batch |-> batch, before |-> job_listings, raised |-> r.raised,
                     inserted |-> r.inserted, skipped |-> r.skipped]

BatchInsertJobListings(batch) ==
  /\ db_stats + Len(batch) <= MaxInserts
  /\ batch_insert_job_listings(batch)
  /\ UNCHANGED <<tasks, running_futures, fut, workQueue, wtask, wpc, wunit, stats,
                 running, shutdown_event, enable_schedule, schedule_jobs, starts, op,
                 pc, arg, todo, last, bodyRuns, interrupted, submitBegun,
                 cancelledFirst, backend, db_last, client, cookie_manager, cookies,
                 max_retry, s_pc, attempt, depth, cookie_refreshed, sent, reqlog,
                 lastreq, s_ret, calls, max_attempts, retry_exceptions, r_pc,
                 attempt_count, invocations, sleeps, last_exception, all_retryable,
                 r_ret, proxies, current_index, p_last, h_max, h_pc, h_attempt, a_left,
                 h_proxy, wire, h_last, saw_other, h_ret, enable_deduplication,
                 seen_job_ids, dp_pc, dp_arg, dp_out, dp_stats, m_stats,
                 last_success_time, m_health, v_data, v_result, v_done, crawl,
                 crawl_log, ro, export, add_records, notion, ua, ua_sel, processed,
                 backoff, spider, unit, used_closed, tx, tx_count, loops, sal>>

\* the job_data_list arguments: up to MaxBatch records
Batches == UNION {[1..n -> 0..MaxJobIds] : n \in 0..MaxBatch}

DbInit ==
  /\ backend \in Backends
  /\ job_listings = <<>>
  /\ db_stats = 0
  /\ db_last = [job_id |-> 0, stored |-> FALSE, before |-> <<>>, ret |-> None]
  /\ db_batch = [batch |-> <<>>, before |-> <<>>, raised |-> FALSE,
                 inserted |-> 0, skipped |-> 0]

DbNext ==
  \/ \E job_id \in 0..MaxJobIds : InsertJobListing(job_id)
  \/ \E batch \in Batches : BatchInsertJobListings(batch)

\* ------------------------------------------------------------ search clients
\* The three generations of the Job Search API client:
\*   "jobSearch" : JobSearch.search_jobs of jobSearch.py (bounded loop)
\*   "legacy"    : JobSearch.search_jobs of 51jobcrawler.py (self-recursive)
\*   "spider"    : JobSpider.fetch_jobs of spiders/job_spider.py
Clients == {"jobSearch", "legacy", "spider"}

\* What one requests.get can bring back:
\*   "challenge"  : a body with  var arg1='<hex token>';
\*   "ok"         : 200, a JSON body without the word "error"
\*   "ok_error"   : 200, a JSON body in which the text "error" occurs
\*   "empty"      : 200, a blank body
\*   "anti"       : a status of RETRY_CONFIG['anti_spider_codes']
\*   "http_error" : any other status that is not 200
\*   "transport"  : requests.exceptions.RequestException, no response
Responses == {"challenge", "ok", "ok_error", "empty", "anti", "http_error", "transport"}

\* RETRY_CONFIG['max_retries']
max_retries == 5

\* self.max_retry = 10 of the legacy client
LegacyBudget == 10

\* self.max_retries = 5 of JobSpider
SpiderRetries == 5

\* the request budget of one call
Budget(c) ==
  CASE c = "jobSearch" -> max_retries
    [] c = "legacy" -> LegacyBudget
    [] c = "spider" -> SpiderRetries

\* the failures a call can end with
MaxRetryExceeded == "Max Retry Exceeded!"
FailedToGetArg1 == "Failed to Get arg1"
Returned == "returned"

NoRequest == [resp |-> "none", cookie |-> "none"]

\* JobSearch.__init__ / JobSpider.__init__: without cookies the jobSearch client
\* builds a CookieManager, whose cookie map has no acw_sc__v2; a given cookie
\* map may or may not hold an acw_sc__v2 value already
SearchInit ==
  /\ client \in Clients
  /\ cookie_manager \in BOOLEAN
  /\ cookies \in {"none", "stale"}
  /\ cookie_manager => (client = "jobSearch" /\ cookies = "none")
  /\ max_retry = LegacyBudget
  /\ s_pc = "idle"
  /\ attempt = 0
  /\ depth = 0
  /\ cookie_refreshed = FALSE
  /\ sent = 0
  /\ reqlog = <<>>
  /\ lastreq = NoRequest
  /\ s_ret = None
  /\ calls = 0

\* the first two requests of the call are kept with the cookie they carried
Logged(log, r, c) ==
  IF Len(log) < 2 THEN Append(log, [resp |-> r, cookie |-> c]) ELSE log

\* a call of search_jobs / fetch_jobs begins
SearchCall ==
  /\ s_pc \in {"idle", "done"}
  /\ calls < MaxCalls
  /\ calls' = calls + 1
  /\ s_pc' = IF client = "legacy" THEN "enter" ELSE "loop"
  /\ attempt' = 0
  /\ depth' = 0
  /\ cookie_refreshed' = FALSE
  /\ sent' = 0
  /\ reqlog' = <<>>
  /\ lastreq' = NoRequest
  /\ s_ret' = None
  /\ UNCHANGED <<tasks, running_futures, fut, workQueue, wtask, wpc, wunit, stats,
                 running, shutdown_event, enable_schedule, schedule_jobs, starts, op,
                 pc, arg, todo, last, bodyRuns, interrupted, submitBegun,
                 cancelledFirst, backend, job_listings, db_stats, db_last, db_batch,
                 client, cookie_manager, cookies, max_retry, max_attempts,
                 retry_exceptions, r_pc, attempt_count, invocations, sleeps,
                 last_exception, all_retryable, r_ret, proxies, current_index, p_last,
                 h_max, h_pc, h_attempt, a_left, h_proxy, wire, h_last, saw_other,
                 h_ret, enable_deduplication, seen_job_ids, dp_pc, dp_arg, dp_out,
                 dp_stats, m_stats, last_success_time, m_health, v_data, v_result,
                 v_done, crawl, crawl_log, ro, export, add_records, notion, ua, ua_sel,
                 processed, backoff, spider, unit, used_closed, tx, tx_count, loops,
                 sal>>

\* refresh_cookies of jobSearch.py: replaces the cookie map by the manager's
\* (which holds no acw_sc__v2) and returns True, or returns False without one
refresh_cookies == cookie_manager

\* jobSearch.py, one iteration of  for attempt in range(max_retries)
JobSearchAttempt(r) ==
  /\ client = "jobSearch"
  /\ s_pc = "loop"
  /\ LET early == attempt >= (max_retries \div 2) /\ ~cookie_refreshed /\ refresh_cookies
         carried == IF early THEN "none" ELSE cookies
         refreshed == cookie_refreshed \/ early
         late == r = "anti" /\ ~refreshed /\ refresh_cookies
         success == r = "ok"
     IN /\ sent' = sent + 1
        /\ reqlog' = Logged(reqlog, r, carried)
        /\ lastreq' = [resp |-> r, cookie |-> carried]
        /\ cookies' = IF r = "challenge" THEN "derived"
                      ELSE IF late THEN "none" ELSE carried
        /\ cookie_refreshed' = (refreshed \/ late)
        /\ attempt' = IF success THEN attempt ELSE attempt + 1
        /\ s_pc' = IF success \/ attempt + 1 = max_retries THEN "done" ELSE "loop"
        /\ s_ret' = IF success THEN Returned
                    ELSE IF attempt + 1 = max_retries THEN MaxRetryExceeded ELSE None
  /\ UNCHANGED <<tasks, running_futures, fut, workQueue, wtask, wpc, wunit, stats,
                 running, shutdown_event, enable_schedule, schedule_jobs, starts, op,
                 pc, arg, todo, last, bodyRuns, interrupted, submitBegun,
                 cancelledFirst, backend, job_listings, db_stats, db_last, db_batch,
                 client, cookie_manager, max_retry, depth, calls, max_attempts,
                 retry_exceptions, r_pc, attempt_count, invocations, sleeps,
                 last_exception, all_retryable, r_ret, proxies, current_index, p_last,
                 h_max, h_pc, h_attempt, a_left, h_proxy, wire, h_last, saw_other,
                 h_ret, enable_deduplication, seen_job_ids, dp_pc, dp_arg, dp_out,
                 dp_stats, m_stats, last_success_time, m_health, v_data, v_result,
                 v_done, crawl, crawl_log, ro, export, add_records, notion, ua, ua_sel,
                 processed, backoff, spider, unit, used_closed, tx, tx_count, loops,
                 sal>>

\* 51jobcrawler.py: entry of search_jobs, also of its recursive call
LegacyEnter ==
  /\ client = "legacy"
  /\ s_pc = "enter"
  /\ max_retry' = max_retry - 1
  /\ s_pc' = IF max_retry - 1 >= 0 THEN "loop" ELSE "done"
  /\ s_ret' = IF max_retry - 1 >= 0 THEN None ELSE MaxRetryExceeded
  /\ UNCHANGED <<tasks, running_futures, fut, workQueue, wtask, wpc, wunit, stats,
                 running, shutdown_event, enable_schedule, schedule_jobs, starts, op,
                 pc, arg, todo, last, bodyRuns, interrupted, submitBegun,
                 cancelledFirst, backend, job_listings, db_stats, db_last, db_batch,
                 client, cookie_manager, cookies, attempt, depth, cookie_refreshed,
                 sent, reqlog, lastreq, calls, max_attempts, retry_exceptions, r_pc,
                 attempt_count, invocations, sleeps, last_exception, all_retryable,
                 r_ret, proxies, current_index, p_last, h_max, h_pc, h_attempt, a_left,
                 h_proxy, wire, h_last, saw_other, h_ret, enable_deduplication,
                 seen_job_ids, dp_pc, dp_arg, dp_out, dp_stats, m_stats,
                 last_success_time, m_health, v_data, v_result, v_done, crawl,
                 crawl_log, ro, export, add_records, notion, ua, ua_sel, processed,
                 backoff, spider, unit, used_closed, tx, tx_count, loops, sal>>

\* 51jobcrawler.py: the request of search_jobs and what follows it
LegacyRequest(r) ==
  /\ client = "legacy"
  /\ s_pc = "loop"
  /\ sent' = sent + 1
  /\ reqlog' = Logged(reqlog, r, cookies)
  /\ lastreq' = [resp |-> r, cookie |-> cookies]
  /\ IF r = "transport"
     THEN /\ s_pc' = "done" /\ s_ret' = "RequestException"
          /\ UNCHANGED <<cookies, max_retry>>
     ELSE IF cookies = "none" /\ r # "challenge"
     THEN /\ s_pc' = "done" /\ s_ret' = FailedToGetArg1
          /\ UNCHANGED <<cookies, max_retry>>
     ELSE IF r = "challenge"
     THEN /\ cookies' = "derived"
          /\ s_pc' = "enter" /\ s_ret' = None
          /\ UNCHANGED max_retry
     ELSE /\ max_retry' = LegacyBudget
          /\ s_pc' = "done" /\ s_ret' = Returned
          /\ UNCHANGED cookies
  /\ UNCHANGED <<tasks, running_futures, fut, workQueue, wtask, wpc, wunit, stats,
                 running, shutdown_event, enable_schedule, schedule_jobs, starts, op,
                 pc, arg, todo, last, bodyRuns, interrupted, submitBegun,
                 cancelledFirst, backend, job_listings, db_stats, db_last, db_batch,
                 client, cookie_manager, attempt, depth, cookie_refreshed, calls,
                 max_attempts, retry_exceptions, r_pc, attempt_count, invocations,
                 sleeps, last_exception, all_retryable, r_ret, proxies, current_index,
                 p_last, h_max, h_pc, h_attempt, a_left, h_proxy, wire, h_last,
                 saw_other, h_ret, enable_deduplication, seen_job_ids, dp_pc, dp_arg,
                 dp_out, dp_stats, m_stats, last_success_time, m_health, v_data,
                 v_result, v_done, crawl, crawl_log, ro, export, add_records, notion,
                 ua, ua_sel, processed, backoff, spider, unit, used_closed, tx,
                 tx_count, loops, sal>>

\* (variant: the handler's time.sleep returns and the loop goes on)
SpiderFetchSleeping(r) ==
  /\ client = "spider"
  /\ s_pc = "loop"
  /\ sent' = sent + 1
  /\ reqlog' = Logged(reqlog, r, cookies)
  /\ lastreq' = [resp |-> r, cookie |-> cookies]
  /\ IF r \in {"transport", "anti", "http_error"}
          \/ (r \in {"challenge", "empty"} /\ ~(r = "challenge" /\ cookies = "none"))
     THEN /\ IF attempt = SpiderRetries - 1
             THEN s_pc' = "done" /\ s_ret' = "RuntimeError" /\ UNCHANGED attempt
             ELSE s_pc' = "loop" /\ s_ret' = None /\ attempt' = attempt + 1
          /\ UNCHANGED <<cookies, depth>>
     ELSE IF r = "challenge"
     THEN /\ cookies' = "derived"
          /\ depth' = depth + 1
          /\ attempt' = 0
          /\ s_pc' = "loop" /\ s_ret' = None
     ELSE /\ s_pc' = "done" /\ s_ret' = Returned
          /\ UNCHANGED <<cookies, depth, attempt>>
  /\ UNCHANGED <<tasks, running_futures, fut, workQueue, wtask, wpc, wunit, stats,
                 running, shutdown_event, enable_schedule, schedule_jobs, starts, op,
                 pc, arg, todo, last, bodyRuns, interrupted, submitBegun,
                 cancelledFirst, backend, job_listings, db_stats, db_last, db_batch,
                 client, cookie_manager, max_retry, cookie_refreshed, calls,
                 max_attempts, retry_exceptions, r_pc, attempt_count, invocations,
                 sleeps, last_exception, all_retryable, r_ret, proxies, current_index,
                 p_last, h_max, h_pc, h_attempt, a_left, h_proxy, wire, h_last,
                 saw_other, h_ret, enable_deduplication, seen_job_ids, dp_pc, dp_arg,
                 dp_out, dp_stats, m_stats, last_success_time, m_health, v_data,
                 v_result, v_done, crawl, crawl_log, ro, export, add_records, notion,
                 ua, ua_sel, processed, backoff, spider, unit, used_closed, tx,
                 tx_count, loops, sal>>

\* spiders/job_spider.py: one iteration of fetch_jobs. raise_for_status and
\* response.json() raise for a status error and for a body that is not JSON;
\* the handler raises RuntimeError on the last attempt and otherwise reaches
\* time.sleep, where the name time is not defined in the module: NameError.
SpiderFetch(r) ==
  /\ client = "spider"
  /\ s_pc = "loop"
  /\ sent' = sent + 1
  /\ reqlog' = Logged(reqlog, r, cookies)
  /\ lastreq' = [resp |-> r, cookie |-> cookies]
  /\ IF r \in {"transport", "anti", "http_error"}
          \/ (r \in {"challenge", "empty"} /\ ~(r = "challenge" /\ cookies = "none"))
     THEN /\ s_pc' = "done"
          /\ s_ret' = IF attempt = SpiderRetries - 1 THEN "RuntimeError" ELSE "NameError"
          /\ UNCHANGED <<cookies, depth, attempt>>
     ELSE IF r = "challenge"
     THEN /\ cookies' = "derived"
          /\ depth' = depth + 1
          /\ attempt' = 0
          /\ s_pc' = "loop" /\ s_ret' = None
     ELSE /\ s_pc' = "done" /\ s_ret' = Returned
          /\ UNCHANGED <<cookies, depth, attempt>>
  /\ UNCHANGED <<tasks, running_futures, fut, workQueue, wtask, wpc, wunit, stats,
                 running, shutdown_event, enable_schedule, schedule_jobs, starts, op,
                 pc, arg, todo, last, bodyRuns, interrupted, submitBegun,
                 cancelledFirst, backend, job_listings, db_stats, db_last, db_batch,
                 client, cookie_manager, max_retry, cookie_refreshed, calls,
                 max_attempts, retry_exceptions, r_pc, attempt_count, invocations,
                 sleeps, last_exception, all_retryable, r_ret, proxies, current_index,
                 p_last, h_max, h_pc, h_attempt, a_left, h_proxy, wire, h_last,
                 saw_other, h_ret, enable_deduplication, seen_job_ids, dp_pc, dp_arg,
                 dp_out, dp_stats, m_stats, last_success_time, m_health, v_data,
                 v_result, v_done, crawl, crawl_log, ro, export, add_records, notion,
                 ua, ua_sel, processed, backoff, spider, unit, used_closed, tx,
                 tx_count, loops, sal>>

SearchNext ==
  \/ SearchCall
  \/ \E r \in Responses : JobSearchAttempt(r)
  \/ LegacyEnter
  \/ \E r \in Responses : LegacyRequest(r)
  \/ \E r \in Responses : SpiderFetch(r)

\* ------------------------------------------------------------ RetryHandler
\* kinds of exception the wrapped function raises
Failures == {"ConnectionError", "TimeoutError", "ValueError"}

\* the retry_exceptions arguments: none given (None or an empty list), or a
\* restricted list as in retry_on_network_error / retry_on_database_error
RetrySets == {{}, {"ConnectionError", "TimeoutError"}}

\* any(isinstance(exception, exc_type) for exc_type in retry_exceptions),
\* or every exception when no list is given
Retryable(kind) == retry_exceptions = {} \/ kind \in retry_exceptions

\* (variant: the attempt limit reached one attempt early)
should_retry_one_early(n, kind) ==
  IF n + 1 >= max_attempts THEN FALSE
  ELSE IF retry_exceptions # {} THEN kind \in retry_exceptions
  ELSE TRUE

\* (variant: retry_exceptions not consulted)
should_retry_any_kind(n, kind) == n < max_attempts

\* RetryHandler.should_retry
should_retry(n, kind) ==
  IF n >= max_attempts THEN FALSE
  ELSE IF retry_exceptions # {} THEN kind \in retry_exceptions
  ELSE TRUE

RetryInit ==
  /\ max_attempts \in 1..MaxAttempts
  /\ retry_exceptions \in RetrySets
  /\ r_pc = "idle"
  /\ attempt_count = 0
  /\ invocations = 0
  /\ sleeps = 0
  /\ last_exception = None
  /\ all_retryable = TRUE
  /\ r_ret = None

\* execute_with_retry is called: last_exception = None, the loop starts at 1
ExecuteWithRetry ==
  /\ r_pc \in {"idle", "done"}
  /\ r_pc' = "invoke"
  /\ attempt_count' = 1
  /\ invocations' = 0
  /\ sleeps' = 0
  /\ last_exception' = None
  /\ all_retryable' = TRUE
  /\ r_ret' = None
  /\ UNCHANGED <<tasks, running_futures, fut, workQueue, wtask, wpc, wunit, stats,
                 running, shutdown_event, enable_schedule, schedule_jobs, starts, op,
                 pc, arg, todo, last, bodyRuns, interrupted, submitBegun,
                 cancelledFirst, backend, job_listings, db_stats, db_last, db_batch,
                 client, cookie_manager, cookies, max_retry, s_pc, attempt, depth,
                 cookie_refreshed, sent, reqlog, lastreq, s_ret, calls, max_attempts,
                 retry_exceptions, proxies, current_index, p_last, h_max, h_pc,
                 h_attempt, a_left, h_proxy, wire, h_last, saw_other, h_ret,
                 enable_deduplication, seen_job_ids, dp_pc, dp_arg, dp_out, dp_stats,
                 m_stats, last_success_time, m_health, v_data, v_result, v_done, crawl,
                 crawl_log, ro, export, add_records, notion, ua, ua_sel, processed,
                 backoff, spider, unit, used_closed, tx, tx_count, loops, sal>>

\* one pass of the loop: func is invoked; a result is returned; an exception is
\* raised again when should_retry refuses, followed by the sleep when the
\* attempt is not the last, and raised after the loop otherwise
RetryInvoke(outcome) ==
  /\ r_pc = "invoke"
  /\ invocations' = invocations + 1
  /\ IF outcome = "ok"
     THEN /\ r_pc' = "done" /\ r_ret' = Returned
          /\ all_retryable' = FALSE
          /\ UNCHANGED last_exception
     ELSE /\ last_exception' = outcome
          /\ all_retryable' = (all_retryable /\ Retryable(outcome))
          /\ IF ~should_retry(attempt_count, outcome)
             THEN r_pc' = "done" /\ r_ret' = outcome
             ELSE IF attempt_count < max_attempts
             THEN r_pc' = "sleep" /\ r_ret' = None
             ELSE r_pc' = "done" /\ r_ret' = outcome
  /\ UNCHANGED <<tasks, running_futures, fut, workQueue, wtask, wpc, wunit, stats,
                 running, shutdown_event, enable_schedule, schedule_jobs, starts, op,
                 pc, arg, todo, last, bodyRuns, interrupted, submitBegun,
                 cancelledFirst, backend, job_listings, db_stats, db_last, db_batch,
                 client, cookie_manager, cookies, max_retry, s_pc, attempt, depth,
                 cookie_refreshed, sent, reqlog, lastreq, s_ret, calls, max_attempts,
                 retry_exceptions, attempt_count, sleeps, proxies, current_index,
                 p_last, h_max, h_pc, h_attempt, a_left, h_proxy, wire, h_last,
                 saw_other, h_ret, enable_deduplication, seen_job_ids, dp_pc, dp_arg,
                 dp_out, dp_stats, m_stats, last_success_time, m_health, v_data,
                 v_result, v_done, crawl, crawl_log, ro, export, add_records, notion,
                 ua, ua_sel, processed, backoff, spider, unit, used_closed, tx,
                 tx_count, loops, sal>>

\* time.sleep(delay), then the next pass of the loop
RetrySleep ==
  /\ r_pc = "sleep"
  /\ sleeps' = sleeps + 1
  /\ attempt_count' = attempt_count + 1
  /\ r_pc' = "invoke"
  /\ UNCHANGED <<tasks, running_futures, fut, workQueue, wtask, wpc, wunit, stats,
                 running, shutdown_event, enable_schedule, schedule_jobs, starts, op,
                 pc, arg, todo, last, bodyRuns, interrupted, submitBegun,
                 cancelledFirst, backend, job_listings, db_stats, db_last, db_batch,
                 client, cookie_manager, cookies, max_retry, s_pc, attempt, depth,
                 cookie_refreshed, sent, reqlog, lastreq, s_ret, calls, max_attempts,
                 retry_exceptions, invocations, last_exception, all_retryable, r_ret,
                 proxies, current_index, p_last, h_max, h_pc, h_attempt, a_left,
                 h_proxy, wire, h_last, saw_other, h_ret, enable_deduplication,
                 seen_job_ids, dp_pc, dp_arg, dp_out, dp_stats, m_stats,
                 last_success_time, m_health, v_data, v_result, v_done, crawl,
                 crawl_log, ro, export, add_records, notion, ua, ua_sel, processed,
                 backoff, spider, unit, used_closed, tx, tx_count, loops, sal>>

RetryNext ==
  \/ ExecuteWithRetry
  \/ \E outcome \in Failures \cup {"ok"} : RetryInvoke(outcome)
  \/ RetrySleep

\* ------------------------------------------------------------ ProxyManager
\* ProxyStatus (TESTING is held only inside check_proxy)
INACTIVE == "inactive"
ACTIVE == "active"
PROXY_FAILED == "failed"
BANNED == "banned"

\* ProxyManager(max_failures=5)
max_failures == 5

\* ProxyInfo: status, success_count, failure_count and whether a
\* response_time has been measured (None otherwise)
NewProxy(s, f) ==
  [status |-> INACTIVE, success_count |-> s, failure_count |-> f, timed |-> FALSE]

\* (variant: the success rate left out of the health test)
is_healthy_by_status(p) == p.status = ACTIVE /\ p.failure_count < 10

\* ProxyInfo.is_healthy with ProxyInfo.success_rate: status ACTIVE,
\* success_count / total >= 0.7 (0.0 when total is 0) and failure_count < 10
is_healthy(p) ==
  /\ p.status = ACTIVE
  /\ p.success_count + p.failure_count > 0
  /\ 10 * p.success_count >= 7 * (p.success_count + p.failure_count)
  /\ p.failure_count < 10

\* score_proxy scaled by 10 * total * (1 + response_time); response_time is
\* 999 when None and taken as 1 second when measured
ScoreNum(p) ==
  7 * p.success_count * (IF p.timed THEN 2 ELSE 1000) + 3 * (p.success_count + p.failure_count)

ScoreDen(p) == (p.success_count + p.failure_count) * (IF p.timed THEN 2 ELSE 1000)

Better(p, q) == ScoreNum(p) * ScoreDen(q) > ScoreNum(q) * ScoreDen(p)

\* healthy_proxies = [p for p in self.proxies if p.is_healthy], as indices
Healthy(ps) == SelectSeq([i \in 1..Len(ps) |-> i], LAMBDA i : is_healthy(ps[i]))

\* max(proxies, key=score_proxy): the first of the best
BestOf(ps, hs) ==
  CHOOSE k \in 1..Len(hs) :
    /\ \A j \in 1..Len(hs) : ~Better(ps[hs[j]], ps[hs[k]])
    /\ \A j \in 1..(k - 1) : Better(ps[hs[k]], ps[hs[j]])

Strategies == {"round_robin", "random", "best_performance"}

NoSelection == [op |-> "none", proxy |-> 0]

\* the success_count and failure_count of the records given to import_proxies
ImportedCounts == {<<3, 7>>, <<7, 3>>}

ProxyInit ==
  /\ proxies = <<>>
  /\ current_index = 0
  /\ p_last = NoSelection

\* add_proxy of a host and port not yet in the list
AddProxy ==
  /\ Len(proxies) < MaxProxies
  /\ proxies' = Append(proxies, NewProxy(0, 0))
  /\ p_last' = NoSelection
  /\ UNCHANGED <<tasks, running_futures, fut, workQueue, wtask, wpc, wunit, stats,
                 running, shutdown_event, enable_schedule, schedule_jobs, starts, op,
                 pc, arg, todo, last, bodyRuns, interrupted, submitBegun,
                 cancelledFirst, backend, job_listings, db_stats, db_last, db_batch,
                 client, cookie_manager, cookies, max_retry, s_pc, attempt, depth,
                 cookie_refreshed, sent, reqlog, lastreq, s_ret, calls, max_attempts,
                 retry_exceptions, r_pc, attempt_count, invocations, sleeps,
                 last_exception, all_retryable, r_ret, current_index, h_max, h_pc,
                 h_attempt, a_left, h_proxy, wire, h_last, saw_other, h_ret,
                 enable_deduplication, seen_job_ids, dp_pc, dp_arg, dp_out, dp_stats,
                 m_stats, last_success_time, m_health, v_data, v_result, v_done, crawl,
                 crawl_log, ro, export, add_records, notion, ua, ua_sel, processed,
                 backoff, spider, unit, used_closed, tx, tx_count, loops, sal>>

\* import_proxies of one record, which restores the two counters
ImportProxy(s, f) ==
  /\ Len(proxies) < MaxProxies
  /\ proxies' = Append(proxies, NewProxy(s, f))
  /\ p_last' = NoSelection
  /\ UNCHANGED <<tasks, running_futures, fut, workQueue, wtask, wpc, wunit, stats,
                 running, shutdown_event, enable_schedule, schedule_jobs, starts, op,
                 pc, arg, todo, last, bodyRuns, interrupted, submitBegun,
                 cancelledFirst, backend, job_listings, db_stats, db_last, db_batch,
                 client, cookie_manager, cookies, max_retry, s_pc, attempt, depth,
                 cookie_refreshed, sent, reqlog, lastreq, s_ret, calls, max_attempts,
                 retry_exceptions, r_pc, attempt_count, invocations, sleeps,
                 last_exception, all_retryable, r_ret, current_index, h_max, h_pc,
                 h_attempt, a_left, h_proxy, wire, h_last, saw_other, h_ret,
                 enable_deduplication, seen_job_ids, dp_pc, dp_arg, dp_out, dp_stats,
                 m_stats, last_success_time, m_health, v_data, v_result, v_done, crawl,
                 crawl_log, ro, export, add_records, notion, ua, ua_sel, processed,
                 backoff, spider, unit, used_closed, tx, tx_count, loops, sal>>

\* mark_proxy_success(proxy, response_time), with the response time its caller
\* _handle_response measures
mark_proxy_success(ps, i) ==
  [ps EXCEPT ![i].success_count = @ + 1, ![i].status = ACTIVE, ![i].timed = TRUE]

mark_proxy_failure(ps, i) ==
  [ps EXCEPT ![i].failure_count = @ + 1,
             ![i].status = IF ps[i].failure_count + 1 >= max_failures
                           THEN PROXY_FAILED ELSE @]

mark_proxy_banned(ps, i) == [ps EXCEPT ![i].status = BANNED]

MarkProxySuccess(i) ==
  /\ i \in DOMAIN proxies
  /\ proxies[i].success_count < MaxSuccess
  /\ proxies' = mark_proxy_success(proxies, i)
  /\ p_last' = NoSelection
  /\ UNCHANGED <<tasks, running_futures, fut, workQueue, wtask, wpc, wunit, stats,
                 running, shutdown_event, enable_schedule, schedule_jobs, starts, op,
                 pc, arg, todo, last, bodyRuns, interrupted, submitBegun,
                 cancelledFirst, backend, job_listings, db_stats, db_last, db_batch,
                 client, cookie_manager, cookies, max_retry, s_pc, attempt, depth,
                 cookie_refreshed, sent, reqlog, lastreq, s_ret, calls, max_attempts,
                 retry_exceptions, r_pc, attempt_count, invocations, sleeps,
                 last_exception, all_retryable, r_ret, current_index, h_max, h_pc,
                 h_attempt, a_left, h_proxy, wire, h_last, saw_other, h_ret,
                 enable_deduplication, seen_job_ids, dp_pc, dp_arg, dp_out, dp_stats,
                 m_stats, last_success_time, m_health, v_data, v_result, v_done, crawl,
                 crawl_log, ro, export, add_records, notion, ua, ua_sel, processed,
                 backoff, spider, unit, used_closed, tx, tx_count, loops, sal>>

MarkProxyFailure(i) ==
  /\ i \in DOMAIN proxies
  /\ proxies[i].failure_count < MaxFailure
  /\ proxies' = mark_proxy_failure(proxies, i)
  /\ p_last' = NoSelection
  /\ UNCHANGED <<tasks, running_futures, fut, workQueue, wtask, wpc, wunit, stats,
                 running, shutdown_event, enable_schedule, schedule_jobs, starts, op,
                 pc, arg, todo, last, bodyRuns, interrupted, submitBegun,
                 cancelledFirst, backend, job_listings, db_stats, db_last, db_batch,
                 client, cookie_manager, cookies, max_retry, s_pc, attempt, depth,
                 cookie_refreshed, sent, reqlog, lastreq, s_ret, calls, max_attempts,
                 retry_exceptions, r_pc, attempt_count, invocations, sleeps,
                 last_exception, all_retryable, r_ret, current_index, h_max, h_pc,
                 h_attempt, a_left, h_proxy, wire, h_last, saw_other, h_ret,
                 enable_deduplication, seen_job_ids, dp_pc, dp_arg, dp_out, dp_stats,
                 m_stats, last_success_time, m_health, v_data, v_result, v_done, crawl,
                 crawl_log, ro, export, add_records, notion, ua, ua_sel, processed,
                 backoff, spider, unit, used_closed, tx, tx_count, loops, sal>>

MarkProxyBanned(i) ==
  /\ i \in DOMAIN proxies
  /\ proxies' = mark_proxy_banned(proxies, i)
  /\ p_last' = NoSelection
  /\ UNCHANGED <<tasks, running_futures, fut, workQueue, wtask, wpc, wunit, stats,
                 running, shutdown_event, enable_schedule, schedule_jobs, starts, op,
                 pc, arg, todo, last, bodyRuns, interrupted, submitBegun,
                 cancelledFirst, backend, job_listings, db_stats, db_last, db_batch,
                 client, cookie_manager, cookies, max_retry, s_pc, attempt, depth,
                 cookie_refreshed, sent, reqlog, lastreq, s_ret, calls, max_attempts,
                 retry_exceptions, r_pc, attempt_count, invocations, sleeps,
                 last_exception, all_retryable, r_ret, current_index, h_max, h_pc,
                 h_attempt, a_left, h_proxy, wire, h_last, saw_other, h_ret,
                 enable_deduplication, seen_job_ids, dp_pc, dp_arg, dp_out, dp_stats,
                 m_stats, last_success_time, m_health, v_data, v_result, v_done, crawl,
                 crawl_log, ro, export, add_records, notion, ua, ua_sel, processed,
                 backoff, spider, unit, used_closed, tx, tx_count, loops, sal>>

\* health_check_all: check_proxy ends with ACTIVE and a response time, or
\* with FAILED, for every proxy; ok[i] tells whether check_proxy of proxy i succeeds
health_check_all(ps, ok) ==
  [i \in 1..Len(ps) |->
     IF ok[i] THEN [ps[i] EXCEPT !.status = ACTIVE, !.timed = TRUE]
     ELSE [ps[i] EXCEPT !.status = PROXY_FAILED]]

HealthCheckAll ==
  /\ proxies # <<>>
  /\ \E ok \in [1..Len(proxies) -> BOOLEAN] : proxies' = health_check_all(proxies, ok)
  /\ p_last' = NoSelection
  /\ UNCHANGED <<tasks, running_futures, fut, workQueue, wtask, wpc, wunit, stats,
                 running, shutdown_event, enable_schedule, schedule_jobs, starts, op,
                 pc, arg, todo, last, bodyRuns, interrupted, submitBegun,
                 cancelledFirst, backend, job_listings, db_stats, db_last, db_batch,
                 client, cookie_manager, cookies, max_retry, s_pc, attempt, depth,
                 cookie_refreshed, sent, reqlog, lastreq, s_ret, calls, max_attempts,
                 retry_exceptions, r_pc, attempt_count, invocations, sleeps,
                 last_exception, all_retryable, r_ret, current_index, h_max, h_pc,
                 h_attempt, a_left, h_proxy, wire, h_last, saw_other, h_ret,
                 enable_deduplication, seen_job_ids, dp_pc, dp_arg, dp_out, dp_stats,
                 m_stats, last_success_time, m_health, v_data, v_result, v_done, crawl,
                 crawl_log, ro, export, add_records, notion, ua, ua_sel, processed,
                 backoff, spider, unit, used_closed, tx, tx_count, loops, sal>>

\* reset_proxy_stats
ResetProxyStats ==
  /\ proxies # <<>>
  /\ proxies' = [i \in 1..Len(proxies) |->
                   [proxies[i] EXCEPT !.success_count = 0, !.failure_count = 0]]
  /\ p_last' = NoSelection
  /\ UNCHANGED <<tasks, running_futures, fut, workQueue, wtask, wpc, wunit, stats,
                 running, shutdown_event, enable_schedule, schedule_jobs, starts, op,
                 pc, arg, todo, last, bodyRuns, interrupted, submitBegun,
                 cancelledFirst, backend, job_listings, db_stats, db_last, db_batch,
                 client, cookie_manager, cookies, max_retry, s_pc, attempt, depth,
                 cookie_refreshed, sent, reqlog, lastreq, s_ret, calls, max_attempts,
                 retry_exceptions, r_pc, attempt_count, invocations, sleeps,
                 last_exception, all_retryable, r_ret, current_index, h_max, h_pc,
                 h_attempt, a_left, h_proxy, wire, h_last, saw_other, h_ret,
                 enable_deduplication, seen_job_ids, dp_pc, dp_arg, dp_out, dp_stats,
                 m_stats, last_success_time, m_health, v_data, v_result, v_done, crawl,
                 crawl_log, ro, export, add_records, notion, ua, ua_sel, processed,
                 backoff, spider, unit, used_closed, tx, tx_count, loops, sal>>

\* get_proxy: the health check when it is due, the healthy proxies, and the
\* choice by strategy; 0 stands for None
get_proxy(strategy, due) ==
  \E ok \in IF due THEN [1..Len(proxies) -> BOOLEAN] ELSE {[i \in 1..Len(proxies) |-> TRUE]} :
    LET ps == IF due /\ proxies # <<>> THEN health_check_all(proxies, ok) ELSE proxies
        hs == Healthy(ps)
    IN /\ proxies' = ps
       /\ IF hs = <<>>
          THEN p_last' = [op |-> "get_proxy", proxy |-> 0] /\ UNCHANGED current_index
          ELSE CASE strategy = "round_robin" ->
                      /\ p_last' = [op |-> "get_proxy",
                                    proxy |-> hs[(current_index % Len(hs)) + 1]]
                      /\ current_index' = (current_index + 1) % Len(hs)
                 [] strategy = "random" ->
                      /\ \E k \in 1..Len(hs) : p_last' = [op |-> "get_proxy", proxy |-> hs[k]]
                      /\ UNCHANGED current_index
                 [] strategy = "best_performance" ->
                      /\ p_last' = [op |-> "get_proxy", proxy |-> hs[BestOf(ps, hs)]]
                      /\ UNCHANGED current_index

GetProxy(strategy, due) ==
  /\ get_proxy(strategy, due)
  /\ UNCHANGED <<tasks, running_futures, fut, workQueue, wtask, wpc, wunit, stats,
                 running, shutdown_event, enable_schedule, schedule_jobs, starts, op,
                 pc, arg, todo, last, bodyRuns, interrupted, submitBegun,
                 cancelledFirst, backend, job_listings, db_stats, db_last, db_batch,
                 client, cookie_manager, cookies, max_retry, s_pc, attempt, depth,
                 cookie_refreshed, sent, reqlog, lastreq, s_ret, calls, max_attempts,
                 retry_exceptions, r_pc, attempt_count, invocations, sleeps,
                 last_exception, all_retryable, r_ret, h_max, h_pc, h_attempt, a_left,
                 h_proxy, wire, h_last, saw_other, h_ret, enable_deduplication,
                 seen_job_ids, dp_pc, dp_arg, dp_out, dp_stats, m_stats,
                 last_success_time, m_health, v_data, v_result, v_done, crawl,
                 crawl_log, ro, export, add_records, notion, ua, ua_sel, processed,
                 backoff, spider, unit, used_closed, tx, tx_count, loops, sal>>

ProxyNext ==
  \/ AddProxy
  \/ \E c \in ImportedCounts : ImportProxy(c[1], c[2])
  \/ \E i \in 1..MaxProxies : MarkProxySuccess(i)
  \/ \E i \in 1..MaxProxies : MarkProxyFailure(i)
  \/ \E i \in 1..MaxProxies : MarkProxyBanned(i)
  \/ HealthCheckAll
  \/ ResetProxyStats
  \/ \E strategy \in Strategies, due \in BOOLEAN : GetProxy(strategy, due)

\* ------------------------------------------------------------ RequestHandler
\* What one HTTP exchange of session.request brings back:
\*   "200"       : status 200, no cookie challenge
\*   "challenge" : a body the cookie handler answers with "retry needed"
\*   "403"       : status 403
\*   "429"       : status 429, in the status_forcelist of the session's Retry
\*   "503"       : a status >= 500 of the status_forcelist
\*   "521"       : a status >= 500 outside the status_forcelist
\*   "404"       : a status that is neither 200, 403, 429 nor >= 500
\*   "transport" : no response, a connection or read failure
Exchanges == {"200", "challenge", "403", "429", "503", "521", "404", "transport"}

\* self.max_retries = 3 without configuration
default_max_retries == 3

\* Retry(total=3, status_forcelist=[429, 500, 502, 503, 504]) of _create_session
adapter_total == 3

\* what the HTTPAdapter sends again by itself for a GET
AdapterRetries(w) == w \in {"429", "503", "transport"}

NoExchange == [resp |-> "none", proxy |-> 0, before |-> NewProxy(0, 0)]

RequestInit ==
  /\ h_max \in 1..default_max_retries
  /\ h_pc = "idle"
  /\ h_attempt = 0
  /\ a_left = 0
  /\ h_proxy = 0
  /\ wire = 0
  /\ h_last = NoExchange
  /\ saw_other = FALSE
  /\ h_ret = None

\* request(method, url): attempt = 0, the loop begins
RequestCall ==
  /\ h_pc \in {"idle", "done"}
  /\ h_pc' = "prepare"
  /\ h_attempt' = 0
  /\ a_left' = 0
  /\ h_proxy' = 0
  /\ wire' = 0
  /\ h_last' = NoExchange
  /\ saw_other' = FALSE
  /\ h_ret' = None
  /\ UNCHANGED <<tasks, running_futures, fut, workQueue, wtask, wpc, wunit, stats,
                 running, shutdown_event, enable_schedule, schedule_jobs, starts, op,
                 pc, arg, todo, last, bodyRuns, interrupted, submitBegun,
                 cancelledFirst, backend, job_listings, db_stats, db_last, db_batch,
                 client, cookie_manager, cookies, max_retry, s_pc, attempt, depth,
                 cookie_refreshed, sent, reqlog, lastreq, s_ret, calls, max_attempts,
                 retry_exceptions, r_pc, attempt_count, invocations, sleeps,
                 last_exception, all_retryable, r_ret, proxies, current_index, p_last,
                 h_max, enable_deduplication, seen_job_ids, dp_pc, dp_arg, dp_out,
                 dp_stats, m_stats, last_success_time, m_health, v_data, v_result,
                 v_done, crawl, crawl_log, ro, export, add_records, notion, ua, ua_sel,
                 processed, backoff, spider, unit, used_closed, tx, tx_count, loops,
                 sal>>

\* _make_request up to session.request: _prepare_proxies asks get_proxy and
\* the ProxyInfo of the chosen url is looked up
MakeRequest(due) ==
  /\ h_pc = "prepare"
  /\ get_proxy("round_robin", due)
  /\ h_proxy' = p_last'.proxy
  /\ a_left' = adapter_total
  /\ h_pc' = "wire"
  /\ UNCHANGED <<tasks, running_futures, fut, workQueue, wtask, wpc, wunit, stats,
                 running, shutdown_event, enable_schedule, schedule_jobs, starts, op,
                 pc, arg, todo, last, bodyRuns, interrupted, submitBegun,
                 cancelledFirst, backend, job_listings, db_stats, db_last, db_batch,
                 client, cookie_manager, cookies, max_retry, s_pc, attempt, depth,
                 cookie_refreshed, sent, reqlog, lastreq, s_ret, calls, max_attempts,
                 retry_exceptions, r_pc, attempt_count, invocations, sleeps,
                 last_exception, all_retryable, r_ret, h_max, h_attempt, wire, h_last,
                 saw_other, h_ret, enable_deduplication, seen_job_ids, dp_pc, dp_arg,
                 dp_out, dp_stats, m_stats, last_success_time, m_health, v_data,
                 v_result, v_done, crawl, crawl_log, ro, export, add_records, notion,
                 ua, ua_sel, processed, backoff, spider, unit, used_closed, tx,
                 tx_count, loops, sal>>

\* the end of a pass of the loop of request: attempt += 1 and either the next
\* pass or the failure the call ends with
NextPass(failure) ==
  /\ h_attempt' = h_attempt + 1
  /\ IF h_attempt + 1 < h_max
     THEN h_pc' = "prepare" /\ h_ret' = None
     ELSE h_pc' = "done" /\ h_ret' = failure

\* one HTTP exchange and what follows it: the adapter's own retry; or the
\* exception of _make_request, which marks the proxy failed; or
\* _handle_response, called by request without proxy_info, and the branch of
\* request for its result. raise_for_status is inside the try of request, so
\* its HTTPError is handled like any exception of the pass.
Exchange(w) ==
  /\ h_pc = "wire"
  /\ wire' = wire + 1
  /\ h_last' = [resp |-> w, proxy |-> h_proxy,
                before |-> IF h_proxy = 0 THEN NewProxy(0, 0) ELSE proxies[h_proxy]]
  /\ saw_other' = (saw_other \/ w = "404")
  /\ IF AdapterRetries(w) /\ a_left > 0
     THEN /\ a_left' = a_left - 1
          /\ UNCHANGED <<h_pc, h_attempt, h_ret, proxies>>
     ELSE IF AdapterRetries(w)
     THEN /\ h_proxy # 0 => proxies[h_proxy].failure_count < MaxFailure
          /\ proxies' = IF h_proxy = 0 THEN proxies ELSE mark_proxy_failure(proxies, h_proxy)
          /\ NextPass(IF w = "transport" THEN "requests.ConnectionError"
                      ELSE "requests.RetryError")
          /\ UNCHANGED a_left
     ELSE IF w = "200"
     THEN /\ h_pc' = "done" /\ h_ret' = Returned
          /\ UNCHANGED <<a_left, h_attempt, proxies>>
     ELSE IF w = "404"
     THEN /\ NextPass("requests.HTTPError")
          /\ UNCHANGED <<a_left, proxies>>
     ELSE /\ NextPass("requests.RequestException")
          /\ UNCHANGED <<a_left, proxies>>
  /\ UNCHANGED <<tasks, running_futures, fut, workQueue, wtask, wpc, wunit, stats,
                 running, shutdown_event, enable_schedule, schedule_jobs, starts, op,
                 pc, arg, todo, last, bodyRuns, interrupted, submitBegun,
                 cancelledFirst, backend, job_listings, db_stats, db_last, db_batch,
                 client, cookie_manager, cookies, max_retry, s_pc, attempt, depth,
                 cookie_refreshed, sent, reqlog, lastreq, s_ret, calls, max_attempts,
                 retry_exceptions, r_pc, attempt_count, invocations, sleeps,
                 last_exception, all_retryable, r_ret, current_index, p_last, h_max,
                 h_proxy, enable_deduplication, seen_job_ids, dp_pc, dp_arg, dp_out,
                 dp_stats, m_stats, last_success_time, m_health, v_data, v_result,
                 v_done, crawl, crawl_log, ro, export, add_records, notion, ua, ua_sel,
                 processed, backoff, spider, unit, used_closed, tx, tx_count, loops,
                 sal>>

RequestNext ==
  \/ \E c \in ImportedCounts : ImportProxy(c[1], c[2])
  \/ RequestCall
  \/ \E due \in BOOLEAN : MakeRequest(due)
  \/ \E w \in Exchanges : Exchange(w)

\* ------------------------------------------------------------ DataProcessor
\* the worker threads of the scheduler's pool, which share one DataProcessor
DpThreads == {"w1", "w2"}

\* job_id values of the records; 0 stands for a record without job_id
DpIds == 1..MaxDpIds

DpInit ==
  /\ enable_deduplication \in BOOLEAN
  /\ seen_job_ids = {}
  /\ dp_pc = [th \in DpThreads |-> "idle"]
  /\ dp_arg = [th \in DpThreads |-> [job_id |-> 0, valid |-> FALSE]]
  /\ dp_out = [id \in DpIds |-> 0]
  /\ dp_stats = [total_records |-> 0, invalid_records |-> 0,
                 duplicated_records |-> 0, valid_records |-> 0]

\* _is_duplicate
is_duplicate(job_id) == job_id \in seen_job_ids

\* process_job_data up to the duplicate test: total_records, _basic_validation,
\* _is_duplicate; valid tells whether the final validation will accept the record
ProcessJobData(th, job_id, valid) ==
  /\ dp_pc[th] = "idle"
  /\ dp_stats.total_records < MaxDpCalls
  /\ IF job_id = 0
     THEN /\ dp_stats' = [dp_stats EXCEPT !.total_records = @ + 1, !.invalid_records = @ + 1]
          /\ UNCHANGED <<dp_pc, dp_arg>>
     ELSE IF enable_deduplication /\ is_duplicate(job_id)
     THEN /\ dp_stats' = [dp_stats EXCEPT !.total_records = @ + 1,
                                          !.duplicated_records = @ + 1]
          /\ UNCHANGED <<dp_pc, dp_arg>>
     ELSE /\ dp_stats' = [dp_stats EXCEPT !.total_records = @ + 1]
          /\ dp_pc' = [dp_pc EXCEPT ![th] = "checked"]
          /\ dp_arg' = [dp_arg EXCEPT ![th] = [job_id |-> job_id, valid |-> valid]]
  /\ UNCHANGED <<tasks, running_futures, fut, workQueue, wtask, wpc, wunit, stats,
                 running, shutdown_event, enable_schedule, schedule_jobs, starts, op,
                 pc, arg, todo, last, bodyRuns, interrupted, submitBegun,
                 cancelledFirst, backend, job_listings, db_stats, db_last, db_batch,
                 client, cookie_manager, cookies, max_retry, s_pc, attempt, depth,
                 cookie_refreshed, sent, reqlog, lastreq, s_ret, calls, max_attempts,
                 retry_exceptions, r_pc, attempt_count, invocations, sleeps,
                 last_exception, all_retryable, r_ret, proxies, current_index, p_last,
                 h_max, h_pc, h_attempt, a_left, h_proxy, wire, h_last, saw_other,
                 h_ret, enable_deduplication, seen_job_ids, dp_out, m_stats,
                 last_success_time, m_health, v_data, v_result, v_done, crawl,
                 crawl_log, ro, export, add_records, notion, ua, ua_sel, processed,
                 backoff, spider, unit, used_closed, tx, tx_count, loops, sal>>

\* process_job_data from cleaning to the end: the final validation, and for a
\* valid record the counters, _seen_job_ids.add and the return of the record
ProcessFinish(th) ==
  /\ dp_pc[th] = "checked"
  /\ dp_pc' = [dp_pc EXCEPT ![th] = "idle"]
  /\ IF dp_arg[th].valid
     THEN /\ dp_stats' = [dp_stats EXCEPT !.valid_records = @ + 1]
          /\ seen_job_ids' = IF enable_deduplication
                             THEN seen_job_ids \cup {dp_arg[th].job_id} ELSE seen_job_ids
          /\ dp_out' = [dp_out EXCEPT ![dp_arg[th].job_id] = @ + 1]
     ELSE /\ dp_stats' = [dp_stats EXCEPT !.invalid_records = @ + 1]
          /\ UNCHANGED <<seen_job_ids, dp_out>>
  /\ UNCHANGED <<tasks, running_futures, fut, workQueue, wtask, wpc, wunit, stats,
                 running, shutdown_event, enable_schedule, schedule_jobs, starts, op,
                 pc, arg, todo, last, bodyRuns, interrupted, submitBegun,
                 cancelledFirst, backend, job_listings, db_stats, db_last, db_batch,
                 client, cookie_manager, cookies, max_retry, s_pc, attempt, depth,
                 cookie_refreshed, sent, reqlog, lastreq, s_ret, calls, max_attempts,
                 retry_exceptions, r_pc, attempt_count, invocations, sleeps,
                 last_exception, all_retryable, r_ret, proxies, current_index, p_last,
                 h_max, h_pc, h_attempt, a_left, h_proxy, wire, h_last, saw_other,
                 h_ret, enable_deduplication, dp_arg, m_stats, last_success_time,
                 m_health, v_data, v_result, v_done, crawl, crawl_log, ro, export,
                 add_records, notion, ua, ua_sel, processed, backoff, spider, unit,
                 used_closed, tx, tx_count, loops, sal>>

DpNext ==
  \/ \E th \in DpThreads, job_id \in 0..MaxDpIds, valid \in BOOLEAN :
       ProcessJobData(th, job_id, valid)
  \/ \E th \in DpThreads : ProcessFinish(th)

\* ------------------------------------------------------------ CrawlerMonitor
\* error_type arguments of record_request: none, one that names the anti-bot
\* block ('anti_spider' or 'blocked' occurs in it), and any other
ErrorTypes == {"none", "anti_spider", "timeout"}

\* age of stats['last_success_time'] against timedelta(hours=1):
\* "never" (None), "recent", or "old" (more than one hour ago)
MonitorInit ==
  /\ m_stats = [total_requests |-> 0, successful_requests |-> 0, failed_requests |-> 0,
                anti_spider_hits |-> 0, consecutive_failures |-> 0]
  /\ last_success_time = "never"
  /\ m_health = [fresh |-> FALSE, critical |-> FALSE, reason |-> "none"]

\* record_request(success, error_type=...)
RecordRequest(success, error_type) ==
  /\ m_stats.total_requests < MaxRequests
  /\ success => error_type = "none"
  /\ m_stats' =
       IF success
       THEN [m_stats EXCEPT !.total_requests = @ + 1, !.successful_requests = @ + 1,
                            !.consecutive_failures = 0]
       ELSE [m_stats EXCEPT !.total_requests = @ + 1, !.failed_requests = @ + 1,
                            !.consecutive_failures = @ + 1,
                            !.anti_spider_hits = IF error_type = "anti_spider"
                                                 THEN @ + 1 ELSE @]
  /\ last_success_time' = IF success THEN "recent" ELSE last_success_time
  /\ m_health' = [m_health EXCEPT !.fresh = FALSE]
  /\ UNCHANGED <<tasks, running_futures, fut, workQueue, wtask, wpc, wunit, stats,
                 running, shutdown_event, enable_schedule, schedule_jobs, starts, op,
                 pc, arg, todo, last, bodyRuns, interrupted, submitBegun,
                 cancelledFirst, backend, job_listings, db_stats, db_last, db_batch,
                 client, cookie_manager, cookies, max_retry, s_pc, attempt, depth,
                 cookie_refreshed, sent, reqlog, lastreq, s_ret, calls, max_attempts,
                 retry_exceptions, r_pc, attempt_count, invocations, sleeps,
                 last_exception, all_retryable, r_ret, proxies, current_index, p_last,
                 h_max, h_pc, h_attempt, a_left, h_proxy, wire, h_last, saw_other,
                 h_ret, enable_deduplication, seen_job_ids, dp_pc, dp_arg, dp_out,
                 dp_stats, v_data, v_result, v_done, crawl, crawl_log, ro, export,
                 add_records, notion, ua, ua_sel, processed, backoff, spider, unit,
                 used_closed, tx, tx_count, loops, sal>>

\* more than an hour passes since the last success
HourPasses ==
  /\ last_success_time = "recent"
  /\ last_success_time' = "old"
  /\ m_health' = [m_health EXCEPT !.fresh = FALSE]
  /\ UNCHANGED <<tasks, running_futures, fut, workQueue, wtask, wpc, wunit, stats,
                 running, shutdown_event, enable_schedule, schedule_jobs, starts, op,
                 pc, arg, todo, last, bodyRuns, interrupted, submitBegun,
                 cancelledFirst, backend, job_listings, db_stats, db_last, db_batch,
                 client, cookie_manager, cookies, max_retry, s_pc, attempt, depth,
                 cookie_refreshed, sent, reqlog, lastreq, s_ret, calls, max_attempts,
                 retry_exceptions, r_pc, attempt_count, invocations, sleeps,
                 last_exception, all_retryable, r_ret, proxies, current_index, p_last,
                 h_max, h_pc, h_attempt, a_left, h_proxy, wire, h_last, saw_other,
                 h_ret, enable_deduplication, seen_job_ids, dp_pc, dp_arg, dp_out,
                 dp_stats, m_stats, v_data, v_result, v_done, crawl, crawl_log, ro,
                 export, add_records, notion, ua, ua_sel, processed, backoff, spider,
                 unit, used_closed, tx, tx_count, loops, sal>>

\* (variant: the consecutive-failure test with >= in place of >)
ConsecutiveTooManyFromTen == m_stats.consecutive_failures >= 10

\* self.stats['consecutive_failures'] > 10
ConsecutiveTooMany == m_stats.consecutive_failures > 10

\* get_success_rate() < 30, the rate being successful / total * 100
SuccessRateBelow30 == 100 * m_stats.successful_requests < 30 * m_stats.total_requests

\* is_health_critical: the first test that holds gives the reason
is_health_critical ==
  IF ConsecutiveTooMany
  THEN [fresh |-> TRUE, critical |-> TRUE, reason |-> "consecutive failures"]
  ELSE IF m_stats.total_requests > 20 /\ SuccessRateBelow30
  THEN [fresh |-> TRUE, critical |-> TRUE, reason |-> "success rate"]
  ELSE IF m_stats.total_requests > 10 /\ 2 * m_stats.anti_spider_hits > m_stats.total_requests
  THEN [fresh |-> TRUE, critical |-> TRUE, reason |-> "anti-spider rate"]
  ELSE IF last_success_time # "never" /\ last_success_time = "old"
  THEN [fresh |-> TRUE, critical |-> TRUE, reason |-> "no recent success"]
  ELSE [fresh |-> TRUE, critical |-> FALSE, reason |-> "healthy"]

IsHealthCritical ==
  /\ m_health' = is_health_critical
  /\ UNCHANGED <<tasks, running_futures, fut, workQueue, wtask, wpc, wunit, stats,
                 running, shutdown_event, enable_schedule, schedule_jobs, starts, op,
                 pc, arg, todo, last, bodyRuns, interrupted, submitBegun,
                 cancelledFirst, backend, job_listings, db_stats, db_last, db_batch,
                 client, cookie_manager, cookies, max_retry, s_pc, attempt, depth,
                 cookie_refreshed, sent, reqlog, lastreq, s_ret, calls, max_attempts,
                 retry_exceptions, r_pc, attempt_count, invocations, sleeps,
                 last_exception, all_retryable, r_ret, proxies, current_index, p_last,
                 h_max, h_pc, h_attempt, a_left, h_proxy, wire, h_last, saw_other,
                 h_ret, enable_deduplication, seen_job_ids, dp_pc, dp_arg, dp_out,
                 dp_stats, m_stats, last_success_time, v_data, v_result, v_done, crawl,
                 crawl_log, ro, export, add_records, notion, ua, ua_sel, processed,
                 backoff, spider, unit, used_closed, tx, tx_count, loops, sal>>

MonitorNext ==
  \/ \E success \in BOOLEAN, error_type \in ErrorTypes : RecordRequest(success, error_type)
  \/ HourPasses
  \/ IsHealthCritical

\* ------------------------------------------------------------- DataValidator
\* the methods class DataValidator defines
DataValidatorMethods ==
  {"validate_job_data", "_validate_required_fields", "_validate_job_id",
   "_validate_job_name", "_validate_company_name", "_validate_location",
   "_validate_salary", "_parse_salary", "_validate_work_experience",
   "_validate_education", "_validate_tags", "_validate_coordinates",
   "_validate_dates", "_parse_date", "_validate_urls", "_clean_url",
   "_add_metadata", "_clean_string", "get_validation_stats", "reset_stats"}

REQUIRED_FIELDS == {"jobId", "jobName", "companyName", "jobAreaString"}

\* salary values are kept in tenths of a thousand per month; Unset is None
Unset == 0 - 1

NoSalary == [min |-> Unset, max |-> Unset]

\* SALARY_PATTERNS in order: the text shape each expression matches (a and b
\* stand for the two numbers, qian = thousand, wan = ten thousand, yue = month,
\* nian = year, mianyi = negotiable) and which of the substrings tested by
\* _parse_salary ('qian/yue', 'wan/nian', 'K', 'wan/yue', 'qian-') occur in the
\* expression itself
SALARY_PATTERNS ==
  << [shape |-> "a-b qian/yue",     marks |-> {"qian/yue"}],
     [shape |-> "a-b wan/nian",     marks |-> {"wan/nian"}],
     [shape |-> "a-bK",             marks |-> {"K"}],
     [shape |-> "a.0-b.0 wan/yue",  marks |-> {"wan/yue"}],
     [shape |-> "a qian-b wan/yue", marks |-> {"qian-", "wan/yue"}],
     [shape |-> "mianyi",           marks |-> {}],
     [shape |-> "xinzi mianyi",     marks |-> {}] >>

NumericShapes == {SALARY_PATTERNS[i].shape : i \in 1..5}

\* provideSalaryString values: the numeric shapes with numbers 1..MaxSalary, the
\* negotiable markers, a text no expression matches, and the empty string
SalaryTexts ==
  {[shape |-> s, a |-> a, b |-> b] : s \in NumericShapes, a \in 1..MaxSalary, b \in 1..MaxSalary}
    \cup {[shape |-> s, a |-> 0, b |-> 0] : s \in {"mianyi", "xinzi mianyi", "other", ""}}

\* round(x * 10 / 12, 1) in tenths; x * 100 / 12 never falls on a half
RoundYear(x) == (2 * x * 100 + 12) \div 24

\* _parse_salary: the first expression that matches decides, by the first
\* branch whose substring occurs in the expression
_parse_salary(text) ==
  IF text.shape = "" THEN NoSalary
  ELSE IF text.shape \in {"mianyi", "xinzi mianyi"} THEN NoSalary
  ELSE LET hits == {i \in DOMAIN SALARY_PATTERNS : SALARY_PATTERNS[i].shape = text.shape}
       IN IF hits = {} THEN NoSalary
          ELSE LET first == CHOOSE i \in hits : \A j \in hits : i <= j
                   marks == SALARY_PATTERNS[first].marks
               IN IF "qian/yue" \in marks THEN [min |-> 10 * text.a, max |-> 10 * text.b]
                  ELSE IF "wan/nian" \in marks
                  THEN [min |-> RoundYear(text.a), max |-> RoundYear(text.b)]
                  ELSE IF "K" \in marks THEN [min |-> 10 * text.a, max |-> 10 * text.b]
                  ELSE IF "wan/yue" \in marks THEN [min |-> 100 * text.a, max |-> 100 * text.b]
                  ELSE IF "qian-" \in marks /\ "wan/yue" \in marks
                  THEN [min |-> 10 * text.a, max |-> 100 * text.b]
                  ELSE NoSalary

\* _validate_salary: salary_text is kept; the range comes from self.parse_salary,
\* a name the class does not define, so the lookup raises and the except branch
\* adds a warning
_validate_salary(data) ==
  IF data.provideSalaryString.shape = ""
  THEN [salary_text |-> FALSE, salary |-> NoSalary, warnings |-> 0]
  ELSE IF "parse_salary" \in DataValidatorMethods
  THEN [salary_text |-> TRUE, salary |-> _parse_salary(data.provideSalaryString),
        warnings |-> 0]
  ELSE [salary_text |-> TRUE, salary |-> NoSalary, warnings |-> 1]

\* _validate_required_fields: one error per required field missing or empty
_validate_required_fields(data) == REQUIRED_FIELDS \ data.fields

\* validate_job_data: data.fields are the required raw fields present and
\* non-empty; is_valid is falsified only by add_error
validate_job_data(data) ==
  LET s == _validate_salary(data)
  IN [is_valid |-> _validate_required_fields(data) = {},
      errors |-> Cardinality(_validate_required_fields(data)),
      warnings |-> s.warnings,
      salary_text |-> s.salary_text,
      salary_min |-> s.salary.min,
      salary_max |-> s.salary.max]

RawDatas == [fields : SUBSET REQUIRED_FIELDS, provideSalaryString : SalaryTexts]

NoResult == [is_valid |-> FALSE, errors |-> 0, warnings |-> 0, salary_text |-> FALSE,
             salary_min |-> Unset, salary_max |-> Unset]

ValidatorInit ==
  /\ v_data = [fields |-> {}, provideSalaryString |-> [shape |-> "", a |-> 0, b |-> 0]]
  /\ v_result = NoResult
  /\ v_done = FALSE

ValidateJobData(data) ==
  /\ v_data' = data
  /\ v_result' = validate_job_data(data)
  /\ v_done' = TRUE
  /\ UNCHANGED <<tasks, running_futures, fut, workQueue, wtask, wpc, wunit, stats,
                 running, shutdown_event, enable_schedule, schedule_jobs, starts, op,
                 pc, arg, todo, last, bodyRuns, interrupted, submitBegun,
                 cancelledFirst, backend, job_listings, db_stats, db_last, db_batch,
                 client, cookie_manager, cookies, max_retry, s_pc, attempt, depth,
                 cookie_refreshed, sent, reqlog, lastreq, s_ret, calls, max_attempts,
                 retry_exceptions, r_pc, attempt_count, invocations, sleeps,
                 last_exception, all_retryable, r_ret, proxies, current_index, p_last,
                 h_max, h_pc, h_attempt, a_left, h_proxy, wire, h_last, saw_other,
                 h_ret, enable_deduplication, seen_job_ids, dp_pc, dp_arg, dp_out,
                 dp_stats, m_stats, last_success_time, m_health, crawl, crawl_log, ro,
                 export, add_records, notion, ua, ua_sel, processed, backoff, spider,
                 unit, used_closed, tx, tx_count, loops, sal>>

ValidatorNext == \E data \in RawDatas : ValidateJobData(data)

\* ------------------------------------------------------ JobSpider.crawl_jobs
\* what search_jobs returns for one page: success False; success with no jobs;
\* success with jobs and a total_count
SearchResults ==
  {[success |-> FALSE, jobs |-> 0, total_count |-> 0]}
    \cup {[success |-> TRUE, jobs |-> j, total_count |-> t] :
            j \in 0..1, t \in 0..MaxTotalCount}

CrawlInit ==
  /\ crawl = [pc |-> "idle", max_pages |-> 0, page |-> 0]
  /\ crawl_log = << >>

\* crawl_jobs(keyword, city_name, max_pages): max_pages or self.max_pages;
\* page = 1. The argument 0 stands for None.
CrawlJobs(max_pages) ==
  /\ crawl.pc = "idle"
  /\ crawl_log = << >>
  /\ crawl' = [pc |-> "loop", page |-> 1,
               max_pages |-> IF max_pages = 0 THEN MaxPages ELSE max_pages]
  /\ UNCHANGED crawl_log
  /\ UNCHANGED <<tasks, running_futures, fut, workQueue, wtask, wpc, wunit, stats,
                 running, shutdown_event, enable_schedule, schedule_jobs, starts, op,
                 pc, arg, todo, last, bodyRuns, interrupted, submitBegun,
                 cancelledFirst, backend, job_listings, db_stats, db_last, db_batch,
                 client, cookie_manager, cookies, max_retry, s_pc, attempt, depth,
                 cookie_refreshed, sent, reqlog, lastreq, s_ret, calls, max_attempts,
                 retry_exceptions, r_pc, attempt_count, invocations, sleeps,
                 last_exception, all_retryable, r_ret, proxies, current_index, p_last,
                 h_max, h_pc, h_attempt, a_left, h_proxy, wire, h_last, saw_other,
                 h_ret, enable_deduplication, seen_job_ids, dp_pc, dp_arg, dp_out,
                 dp_stats, m_stats, last_success_time, m_health, v_data, v_result,
                 v_done, ro, export, add_records, notion, ua, ua_sel, processed,
                 backoff, spider, unit, used_closed, tx, tx_count, loops, sal>>

\* (variant: the coverage test with > in place of >=)
CoveredStrictly(page, total_count) == page * page_size > total_count

\* page * self.page_size >= total_count
Covered(page, total_count) == page * page_size >= total_count

\* one pass of the while loop: search_jobs for the page, the breaks on failure,
\* on no jobs and on coverage, else page += 1 and the pause between pages
CrawlPage(result) ==
  /\ crawl.pc = "loop"
  /\ crawl.page <= crawl.max_pages
  /\ crawl_log' = Append(crawl_log, [page |-> crawl.page, result |-> result])
  /\ crawl' =
       IF ~result.success THEN [crawl EXCEPT !.pc = "done"]
       ELSE IF result.jobs = 0 THEN [crawl EXCEPT !.pc = "done"]
       ELSE IF Covered(crawl.page, result.total_count) THEN [crawl EXCEPT !.pc = "done"]
       ELSE [crawl EXCEPT !.page = @ + 1]
  /\ UNCHANGED <<tasks, running_futures, fut, workQueue, wtask, wpc, wunit, stats,
                 running, shutdown_event, enable_schedule, schedule_jobs, starts, op,
                 pc, arg, todo, last, bodyRuns, interrupted, submitBegun,
                 cancelledFirst, backend, job_listings, db_stats, db_last, db_batch,
                 client, cookie_manager, cookies, max_retry, s_pc, attempt, depth,
                 cookie_refreshed, sent, reqlog, lastreq, s_ret, calls, max_attempts,
                 retry_exceptions, r_pc, attempt_count, invocations, sleeps,
                 last_exception, all_retryable, r_ret, proxies, current_index, p_last,
                 h_max, h_pc, h_attempt, a_left, h_proxy, wire, h_last, saw_other,
                 h_ret, enable_deduplication, seen_job_ids, dp_pc, dp_arg, dp_out,
                 dp_stats, m_stats, last_success_time, m_health, v_data, v_result,
                 v_done, ro, export, add_records, notion, ua, ua_sel, processed,
                 backoff, spider, unit, used_closed, tx, tx_count, loops, sal>>

\* the while condition page <= max_pages fails
CrawlExhausted ==
  /\ crawl.pc = "loop"
  /\ crawl.page > crawl.max_pages
  /\ crawl' = [crawl EXCEPT !.pc = "done"]
  /\ UNCHANGED crawl_log
  /\ UNCHANGED <<tasks, running_futures, fut, workQueue, wtask, wpc, wunit, stats,
                 running, shutdown_event, enable_schedule, schedule_jobs, starts, op,
                 pc, arg, todo, last, bodyRuns, interrupted, submitBegun,
                 cancelledFirst, backend, job_listings, db_stats, db_last, db_batch,
                 client, cookie_manager, cookies, max_retry, s_pc, attempt, depth,
                 cookie_refreshed, sent, reqlog, lastreq, s_ret, calls, max_attempts,
                 retry_exceptions, r_pc, attempt_count, invocations, sleeps,
                 last_exception, all_retryable, r_ret, proxies, current_index, p_last,
                 h_max, h_pc, h_attempt, a_left, h_proxy, wire, h_last, saw_other,
                 h_ret, enable_deduplication, seen_job_ids, dp_pc, dp_arg, dp_out,
                 dp_stats, m_stats, last_success_time, m_health, v_data, v_result,
                 v_done, ro, export, add_records, notion, ua, ua_sel, processed,
                 backoff, spider, unit, used_closed, tx, tx_count, loops, sal>>

CrawlNext ==
  \/ \E max_pages \in 0..MaxPages : CrawlJobs(max_pages)
  \/ \E result \in SearchResults : CrawlPage(result)
  \/ CrawlExhausted

\* ------------------------------------------- 51jobcrawler.py, export to Feishu
\* the slice width and range step of the export loop
BatchSize == 400

ExportInit ==
  /\ export = [pc |-> "idle", n |-> 0, i |-> 0]
  /\ add_records = << >>

\* fields is built from the n rows of the data frame;
\* for i in range(1, len(fields)//400+2) starts at 1
ExportStart(n) ==
  /\ export.pc = "idle"
  /\ add_records = << >>
  /\ export' = [pc |-> "loop", n |-> n, i |-> 1]
  /\ UNCHANGED add_records
  /\ UNCHANGED <<tasks, running_futures, fut, workQueue, wtask, wpc, wunit, stats,
                 running, shutdown_event, enable_schedule, schedule_jobs, starts, op,
                 pc, arg, todo, last, bodyRuns, interrupted, submitBegun,
                 cancelledFirst, backend, job_listings, db_stats, db_last, db_batch,
                 client, cookie_manager, cookies, max_retry, s_pc, attempt, depth,
                 cookie_refreshed, sent, reqlog, lastreq, s_ret, calls, max_attempts,
                 retry_exceptions, r_pc, attempt_count, invocations, sleeps,
                 last_exception, all_retryable, r_ret, proxies, current_index, p_last,
                 h_max, h_pc, h_attempt, a_left, h_proxy, wire, h_last, saw_other,
                 h_ret, enable_deduplication, seen_job_ids, dp_pc, dp_arg, dp_out,
                 dp_stats, m_stats, last_success_time, m_health, v_data, v_result,
                 v_done, crawl, crawl_log, ro, notion, ua, ua_sel, processed, backoff,
                 spider, unit, used_closed, tx, tx_count, loops, sal>>

\* fields[400*(i-1):400*i]: the slice is cut at len(fields), and is empty when
\* it starts there or beyond; first is the 1-based position of its first record
Slice(n, i) ==
  LET lo == IF BatchSize * (i - 1) < n THEN BatchSize * (i - 1) ELSE n
      hi == IF BatchSize * i < n THEN BatchSize * i ELSE n
  IN [first |-> lo + 1, size |-> hi - lo]

\* res = fs.add_records(db_id, table_id, fields[400*(i-1):400*i]); sleep
ExportBatch ==
  /\ export.pc = "loop"
  /\ export.i < export.n \div BatchSize + 2
  /\ add_records' = Append(add_records, Slice(export.n, export.i))
  /\ export' = [export EXCEPT !.i = @ + 1]
  /\ UNCHANGED <<tasks, running_futures, fut, workQueue, wtask, wpc, wunit, stats,
                 running, shutdown_event, enable_schedule, schedule_jobs, starts, op,
                 pc, arg, todo, last, bodyRuns, interrupted, submitBegun,
                 cancelledFirst, backend, job_listings, db_stats, db_last, db_batch,
                 client, cookie_manager, cookies, max_retry, s_pc, attempt, depth,
                 cookie_refreshed, sent, reqlog, lastreq, s_ret, calls, max_attempts,
                 retry_exceptions, r_pc, attempt_count, invocations, sleeps,
                 last_exception, all_retryable, r_ret, proxies, current_index, p_last,
                 h_max, h_pc, h_attempt, a_left, h_proxy, wire, h_last, saw_other,
                 h_ret, enable_deduplication, seen_job_ids, dp_pc, dp_arg, dp_out,
                 dp_stats, m_stats, last_success_time, m_health, v_data, v_result,
                 v_done, crawl, crawl_log, ro, notion, ua, ua_sel, processed, backoff,
                 spider, unit, used_closed, tx, tx_count, loops, sal>>

\* the range is exhausted
ExportEnd ==
  /\ export.pc = "loop"
  /\ export.i >= export.n \div BatchSize + 2
  /\ export' = [export EXCEPT !.pc = "done"]
  /\ UNCHANGED add_records
  /\ UNCHANGED <<tasks, running_futures, fut, workQueue, wtask, wpc, wunit, stats,
                 running, shutdown_event, enable_schedule, schedule_jobs, starts, op,
                 pc, arg, todo, last, bodyRuns, interrupted, submitBegun,
                 cancelledFirst, backend, job_listings, db_stats, db_last, db_batch,
                 client, cookie_manager, cookies, max_retry, s_pc, attempt, depth,
                 cookie_refreshed, sent, reqlog, lastreq, s_ret, calls, max_attempts,
                 retry_exceptions, r_pc, attempt_count, invocations, sleeps,
                 last_exception, all_retryable, r_ret, proxies, current_index, p_last,
                 h_max, h_pc, h_attempt, a_left, h_proxy, wire, h_last, saw_other,
                 h_ret, enable_deduplication, seen_job_ids, dp_pc, dp_arg, dp_out,
                 dp_stats, m_stats, last_success_time, m_health, v_data, v_result,
                 v_done, crawl, crawl_log, ro, notion, ua, ua_sel, processed, backoff,
                 spider, unit, used_closed, tx, tx_count, loops, sal>>

ExportNext ==
  \/ \E n \in 0..MaxRecords : ExportStart(n)
  \/ ExportBatch
  \/ ExportEnd

\* ---------------------------------------------- notion_integration.add_content
\* responses to the page-creation request: the status, and whether the body is
\* JSON with a 'message' entry (read only for statuses other than 200 and 429)
NotionResponses ==
  {[status |-> 200, message |-> FALSE], [status |-> 429, message |-> TRUE],
   [status |-> 500, message |-> TRUE], [status |-> 500, message |-> FALSE]}

\* max_retry=10
notion_max_retry == 10

NotionInit ==
  notion = [pc |-> "idle", max_retry |-> 0, requests |-> 0, sleeps |-> 0,
            others |-> 0, status_code |-> 0, ret |-> None]

\* add_content up to the loop: status_code='', max_retry=10
AddContent ==
  /\ notion.pc = "idle"
  /\ notion.requests = 0
  /\ notion' = [notion EXCEPT !.pc = "loop", !.max_retry = notion_max_retry]
  /\ UNCHANGED <<tasks, running_futures, fut, workQueue, wtask, wpc, wunit, stats,
                 running, shutdown_event, enable_schedule, schedule_jobs, starts, op,
                 pc, arg, todo, last, bodyRuns, interrupted, submitBegun,
                 cancelledFirst, backend, job_listings, db_stats, db_last, db_batch,
                 client, cookie_manager, cookies, max_retry, s_pc, attempt, depth,
                 cookie_refreshed, sent, reqlog, lastreq, s_ret, calls, max_attempts,
                 retry_exceptions, r_pc, attempt_count, invocations, sleeps,
                 last_exception, all_retryable, r_ret, proxies, current_index, p_last,
                 h_max, h_pc, h_attempt, a_left, h_proxy, wire, h_last, saw_other,
                 h_ret, enable_deduplication, seen_job_ids, dp_pc, dp_arg, dp_out,
                 dp_stats, m_stats, last_success_time, m_health, v_data, v_result,
                 v_done, crawl, crawl_log, ro, export, add_records, ua, ua_sel,
                 processed, backoff, spider, unit, used_closed, tx, tx_count, loops,
                 sal>>

\* one pass of 'while status_code != 200' that sends the request:
\* max_retry -= 1, not below 0; the POST; then the branch on the status
NotionRequest(response) ==
  /\ notion.pc = "loop"
  /\ notion.max_retry - 1 >= 0
  /\ notion' =
       IF response.status = 200
       THEN [notion EXCEPT !.max_retry = @ - 1, !.requests = @ + 1, !.status_code = 200,
                           !.pc = "done", !.ret = "returned"]
       ELSE IF response.status = 429
       THEN [notion EXCEPT !.max_retry = @ - 1, !.requests = @ + 1, !.status_code = 429,
                           !.sleeps = @ + 1]
       ELSE IF response.message
       THEN [notion EXCEPT !.max_retry = @ - 1, !.requests = @ + 1,
                           !.status_code = response.status, !.others = @ + 1]
       ELSE [notion EXCEPT !.max_retry = @ - 1, !.requests = @ + 1,
                           !.status_code = response.status, !.others = @ + 1,
                           !.pc = "done", !.ret = "raised in response.json()['message']"]
  /\ UNCHANGED <<tasks, running_futures, fut, workQueue, wtask, wpc, wunit, stats,
                 running, shutdown_event, enable_schedule, schedule_jobs, starts, op,
                 pc, arg, todo, last, bodyRuns, interrupted, submitBegun,
                 cancelledFirst, backend, job_listings, db_stats, db_last, db_batch,
                 client, cookie_manager, cookies, max_retry, s_pc, attempt, depth,
                 cookie_refreshed, sent, reqlog, lastreq, s_ret, calls, max_attempts,
                 retry_exceptions, r_pc, attempt_count, invocations, sleeps,
                 last_exception, all_retryable, r_ret, proxies, current_index, p_last,
                 h_max, h_pc, h_attempt, a_left, h_proxy, wire, h_last, saw_other,
                 h_ret, enable_deduplication, seen_job_ids, dp_pc, dp_arg, dp_out,
                 dp_stats, m_stats, last_success_time, m_health, v_data, v_result,
                 v_done, crawl, crawl_log, ro, export, add_records, ua, ua_sel,
                 processed, backoff, spider, unit, used_closed, tx, tx_count, loops,
                 sal>>

\* the pass in which max_retry falls below 0: raise Exception("MaxRetry")
NotionMaxRetry ==
  /\ notion.pc = "loop"
  /\ notion.max_retry - 1 < 0
  /\ notion' = [notion EXCEPT !.max_retry = @ - 1, !.pc = "done", !.ret = "raised MaxRetry"]
  /\ UNCHANGED <<tasks, running_futures, fut, workQueue, wtask, wpc, wunit, stats,
                 running, shutdown_event, enable_schedule, schedule_jobs, starts, op,
                 pc, arg, todo, last, bodyRuns, interrupted, submitBegun,
                 cancelledFirst, backend, job_listings, db_stats, db_last, db_batch,
                 client, cookie_manager, cookies, max_retry, s_pc, attempt, depth,
                 cookie_refreshed, sent, reqlog, lastreq, s_ret, calls, max_attempts,
                 retry_exceptions, r_pc, attempt_count, invocations, sleeps,
                 last_exception, all_retryable, r_ret, proxies, current_index, p_last,
                 h_max, h_pc, h_attempt, a_left, h_proxy, wire, h_last, saw_other,
                 h_ret, enable_deduplication, seen_job_ids, dp_pc, dp_arg, dp_out,
                 dp_stats, m_stats, last_success_time, m_health, v_data, v_result,
                 v_done, crawl, crawl_log, ro, export, add_records, ua, ua_sel,
                 processed, backoff, spider, unit, used_closed, tx, tx_count, loops,
                 sal>>

NotionNext ==
  \/ AddContent
  \/ \E response \in NotionResponses : NotionRequest(response)
  \/ NotionMaxRetry

\* ----------------------------------------------------------- UserAgentRotator
\* user-agent strings; the list loaded at construction holds the first two
UAs == {"ua1", "ua2", "ua3"}

\* the list after element agent is removed (list.remove; the lists of the model
\* hold no string twice)
RemoveFrom(s, agent) == SelectSeq(s, LAMBDA x : x # agent)

\* __init__: last_index = -1, current_agent = user_agents[0]; selected and
\* previous are the results of the last two get_random_agent calls that made a
\* selection, rotated tells that the last one chose among more than one string
UserAgentInit ==
  /\ ua \in {[user_agents |-> <<"ua1", "ua2">>, current_agent |-> "ua1",
              usage_count |-> 0, last_index |-> 0 - 1, rotation_enabled |-> r] :
             r \in BOOLEAN}
  /\ ua_sel = [previous |-> "", selected |-> "", rotated |-> FALSE]

\* get_random_agent (get_random is its alias); indices count from 0
GetRandomAgent(index) ==
  /\ ua.usage_count < MaxUsage
  /\ IF ua.user_agents = << >> \/ ~ua.rotation_enabled
     THEN /\ index = 0
          /\ UNCHANGED <<ua, ua_sel>>
     ELSE /\ IF Len(ua.user_agents) > 1
             THEN index \in (0..(Len(ua.user_agents) - 1)) \ {ua.last_index}
             ELSE index = 0
          /\ ua' = [ua EXCEPT !.last_index = index,
                              !.current_agent = ua.user_agents[index + 1],
                              !.usage_count = @ + 1]
          /\ ua_sel' = [previous |-> ua_sel.selected,
                        selected |-> ua.user_agents[index + 1],
                        rotated |-> Len(ua.user_agents) > 1]
  /\ UNCHANGED <<tasks, running_futures, fut, workQueue, wtask, wpc, wunit, stats,
                 running, shutdown_event, enable_schedule, schedule_jobs, starts, op,
                 pc, arg, todo, last, bodyRuns, interrupted, submitBegun,
                 cancelledFirst, backend, job_listings, db_stats, db_last, db_batch,
                 client, cookie_manager, cookies, max_retry, s_pc, attempt, depth,
                 cookie_refreshed, sent, reqlog, lastreq, s_ret, calls, max_attempts,
                 retry_exceptions, r_pc, attempt_count, invocations, sleeps,
                 last_exception, all_retryable, r_ret, proxies, current_index, p_last,
                 h_max, h_pc, h_attempt, a_left, h_proxy, wire, h_last, saw_other,
                 h_ret, enable_deduplication, seen_job_ids, dp_pc, dp_arg, dp_out,
                 dp_stats, m_stats, last_success_time, m_health, v_data, v_result,
                 v_done, crawl, crawl_log, ro, export, add_records, notion, processed,
                 backoff, spider, unit, used_closed, tx, tx_count, loops, sal>>

\* set_agent
SetAgent(agent) ==
  /\ ua' = [ua EXCEPT !.current_agent = agent]
  /\ UNCHANGED <<tasks, running_futures, fut, workQueue, wtask, wpc, wunit, stats,
                 running, shutdown_event, enable_schedule, schedule_jobs, starts, op,
                 pc, arg, todo, last, bodyRuns, interrupted, submitBegun,
                 cancelledFirst, backend, job_listings, db_stats, db_last, db_batch,
                 client, cookie_manager, cookies, max_retry, s_pc, attempt, depth,
                 cookie_refreshed, sent, reqlog, lastreq, s_ret, calls, max_attempts,
                 retry_exceptions, r_pc, attempt_count, invocations, sleeps,
                 last_exception, all_retryable, r_ret, proxies, current_index, p_last,
                 h_max, h_pc, h_attempt, a_left, h_proxy, wire, h_last, saw_other,
                 h_ret, enable_deduplication, seen_job_ids, dp_pc, dp_arg, dp_out,
                 dp_stats, m_stats, last_success_time, m_health, v_data, v_result,
                 v_done, crawl, crawl_log, ro, export, add_records, notion, ua_sel,
                 processed, backoff, spider, unit, used_closed, tx, tx_count, loops,
                 sal>>

\* add_agent
AddAgent(agent) ==
  /\ ua' = IF agent \notin Range(ua.user_agents)
           THEN [ua EXCEPT !.user_agents = Append(@, agent)] ELSE ua
  /\ UNCHANGED <<tasks, running_futures, fut, workQueue, wtask, wpc, wunit, stats,
                 running, shutdown_event, enable_schedule, schedule_jobs, starts, op,
                 pc, arg, todo, last, bodyRuns, interrupted, submitBegun,
                 cancelledFirst, backend, job_listings, db_stats, db_last, db_batch,
                 client, cookie_manager, cookies, max_retry, s_pc, attempt, depth,
                 cookie_refreshed, sent, reqlog, lastreq, s_ret, calls, max_attempts,
                 retry_exceptions, r_pc, attempt_count, invocations, sleeps,
                 last_exception, all_retryable, r_ret, proxies, current_index, p_last,
                 h_max, h_pc, h_attempt, a_left, h_proxy, wire, h_last, saw_other,
                 h_ret, enable_deduplication, seen_job_ids, dp_pc, dp_arg, dp_out,
                 dp_stats, m_stats, last_success_time, m_health, v_data, v_result,
                 v_done, crawl, crawl_log, ro, export, add_records, notion, ua_sel,
                 processed, backoff, spider, unit, used_closed, tx, tx_count, loops,
                 sal>>

\* remove_agent
RemoveAgent(agent) ==
  /\ ua' = [ua EXCEPT !.user_agents = RemoveFrom(@, agent)]
  /\ UNCHANGED <<tasks, running_futures, fut, workQueue, wtask, wpc, wunit, stats,
                 running, shutdown_event, enable_schedule, schedule_jobs, starts, op,
                 pc, arg, todo, last, bodyRuns, interrupted, submitBegun,
                 cancelledFirst, backend, job_listings, db_stats, db_last, db_batch,
                 client, cookie_manager, cookies, max_retry, s_pc, attempt, depth,
                 cookie_refreshed, sent, reqlog, lastreq, s_ret, calls, max_attempts,
                 retry_exceptions, r_pc, attempt_count, invocations, sleeps,
                 last_exception, all_retryable, r_ret, proxies, current_index, p_last,
                 h_max, h_pc, h_attempt, a_left, h_proxy, wire, h_last, saw_other,
                 h_ret, enable_deduplication, seen_job_ids, dp_pc, dp_arg, dp_out,
                 dp_stats, m_stats, last_success_time, m_health, v_data, v_result,
                 v_done, crawl, crawl_log, ro, export, add_records, notion, ua_sel,
                 processed, backoff, spider, unit, used_closed, tx, tx_count, loops,
                 sal>>

\* reset_stats
ResetStats ==
  /\ ua' = [ua EXCEPT !.usage_count = 0, !.last_index = 0 - 1]
  /\ ua_sel' = ua_sel
  /\ UNCHANGED <<tasks, running_futures, fut, workQueue, wtask, wpc, wunit, stats,
                 running, shutdown_event, enable_schedule, schedule_jobs, starts, op,
                 pc, arg, todo, last, bodyRuns, interrupted, submitBegun,
                 cancelledFirst, backend, job_listings, db_stats, db_last, db_batch,
                 client, cookie_manager, cookies, max_retry, s_pc, attempt, depth,
                 cookie_refreshed, sent, reqlog, lastreq, s_ret, calls, max_attempts,
                 retry_exceptions, r_pc, attempt_count, invocations, sleeps,
                 last_exception, all_retryable, r_ret, proxies, current_index, p_last,
                 h_max, h_pc, h_attempt, a_left, h_proxy, wire, h_last, saw_other,
                 h_ret, enable_deduplication, seen_job_ids, dp_pc, dp_arg, dp_out,
                 dp_stats, m_stats, last_success_time, m_health, v_data, v_result,
                 v_done, crawl, crawl_log, ro, export, add_records, notion, processed,
                 backoff, spider, unit, used_closed, tx, tx_count, loops, sal>>

UserAgentNext ==
  \/ \E index \in 0..2 : GetRandomAgent(index)
  \/ \E agent \in UAs : SetAgent(agent)
  \/ \E agent \in UAs : AddAgent(agent)
  \/ \E agent \in UAs : RemoveAgent(agent)
  \/ ResetStats

\* ------------------------------------- DataProcessor.process_job_data, one call
\* the industry names met: one that industry_mapping lists (written in the
\* source as the Chinese for "computer software") and the canonical name it is
\* mapped to ("IT/Internet"); "" stands for no industry
Industries == {"computer software", "IT/Internet"}

\* self.industry_mapping.get(industry, industry)
industry_mapping(industry) ==
  IF industry = "computer software" THEN "IT/Internet" ELSE industry

\* _standardize_job_data, the industry entry: mapped when present and non-empty
_standardize_job_data(job_data) ==
  IF job_data.industry # "" THEN industry_mapping(job_data.industry) ELSE job_data.industry

\* DataValidator._add_metadata, the industry entry of cleaned_data:
\* _clean_string(data.get('industryType1Str')), where "" stands for None
_add_metadata(data) == data.industryType1Str

\* job_data of process_job_data: which of job_id, title, company_name are
\* present and non-empty, whether job_id is a str, which of the provider's raw
\* fields sit at top level, and the raw_data entry ("absent" or a dict)
JobDatas ==
  [top : SUBSET {"job_id", "title", "company_name"},
   job_id_is_str : BOOLEAN,
   raw_top : {{}, REQUIRED_FIELDS},
   raw_data : {"absent", "dict"},
   raw_fields : SUBSET REQUIRED_FIELDS,
   industry : Industries]

\* _basic_validation
_basic_validation(job_data) ==
  /\ job_data.top = {"job_id", "title", "company_name"}
  /\ job_data.job_id_is_str

\* raw_data = job_data.get('raw_data', {}): the entry, or an empty dict
RawDataOf(job_data) ==
  [fields |-> IF job_data.raw_data = "absent" THEN {} ELSE job_data.raw_fields,
   provideSalaryString |-> [shape |-> "", a |-> 0, b |-> 0],
   industryType1Str |-> IF job_data.raw_data = "absent" THEN "" ELSE job_data.industry]

ProcessInit ==
  processed = [called |-> FALSE, job_data |-> CHOOSE j \in JobDatas : TRUE,
               duplicate |-> FALSE, ret |-> None, enriched_industry |-> "",
               industry |-> ""]

\* process_job_data run from start to end by one thread; the job_id of a
\* record that has one is 1
ProcessRecord(job_data) ==
  /\ dp_stats.total_records < MaxDpCalls
  /\ \A th \in DpThreads : dp_pc[th] = "idle"
  /\ job_data.raw_data = "absent" => job_data.raw_fields = {}
  /\ LET dup == enable_deduplication /\ is_duplicate(1)
         result == validate_job_data(RawDataOf(job_data))
     IN IF ~_basic_validation(job_data)
        THEN /\ dp_stats' = [dp_stats EXCEPT !.total_records = @ + 1,
                                             !.invalid_records = @ + 1]
             /\ processed' = [called |-> TRUE, job_data |-> job_data, duplicate |-> FALSE,
                              ret |-> None, enriched_industry |-> "", industry |-> ""]
             /\ UNCHANGED seen_job_ids
        ELSE IF dup
        THEN /\ dp_stats' = [dp_stats EXCEPT !.total_records = @ + 1,
                                             !.duplicated_records = @ + 1]
             /\ processed' = [called |-> TRUE, job_data |-> job_data, duplicate |-> TRUE,
                              ret |-> None, enriched_industry |-> "", industry |-> ""]
             /\ UNCHANGED seen_job_ids
        ELSE IF result.is_valid
        THEN /\ dp_stats' = [dp_stats EXCEPT !.total_records = @ + 1,
                                             !.valid_records = @ + 1]
             /\ seen_job_ids' = IF enable_deduplication
                                THEN seen_job_ids \cup {1} ELSE seen_job_ids
             /\ processed' = [called |-> TRUE, job_data |-> job_data, duplicate |-> FALSE,
                              ret |-> "cleaned_data",
                              enriched_industry |-> _standardize_job_data(job_data),
                              industry |-> _add_metadata(RawDataOf(job_data))]
        ELSE /\ dp_stats' = [dp_stats EXCEPT !.total_records = @ + 1,
                                             !.invalid_records = @ + 1]
             /\ processed' = [called |-> TRUE, job_data |-> job_data, duplicate |-> FALSE,
                              ret |-> None, enriched_industry |-> "", industry |-> ""]
             /\ UNCHANGED seen_job_ids
  /\ UNCHANGED <<tasks, running_futures, fut, workQueue, wtask, wpc, wunit, stats,
                 running, shutdown_event, enable_schedule, schedule_jobs, starts, op,
                 pc, arg, todo, last, bodyRuns, interrupted, submitBegun,
                 cancelledFirst, backend, job_listings, db_stats, db_last, db_batch,
                 client, cookie_manager, cookies, max_retry, s_pc, attempt, depth,
                 cookie_refreshed, sent, reqlog, lastreq, s_ret, calls, max_attempts,
                 retry_exceptions, r_pc, attempt_count, invocations, sleeps,
                 last_exception, all_retryable, r_ret, proxies, current_index, p_last,
                 h_max, h_pc, h_attempt, a_left, h_proxy, wire, h_last, saw_other,
                 h_ret, enable_deduplication, dp_pc, dp_arg, dp_out, m_stats,
                 last_success_time, m_health, v_data, v_result, v_done, crawl,
                 crawl_log, ro, export, add_records, notion, ua, ua_sel, backoff,
                 spider, unit, used_closed, tx, tx_count, loops, sal>>

ProcessNext == \E job_data \in JobDatas : ProcessRecord(job_data)

\* ------------------------------------------------ RetryHandler.calculate_delay
\* delays and factors are fractions num/den of a second, which is exact for the
\* float values of the configurations below
Frac(n, d) == [num |-> n, den |-> d]

\* RetryConfig() and the three predefined configurations
DefaultRetryConfig ==
  [name |-> "default", base_delay |-> Frac(1, 1), max_delay |-> 60,
   exponential_base |-> Frac(2, 1), jitter |-> TRUE, backoff_factor |-> Frac(1, 1)]

NETWORK_RETRY_CONFIG ==
  [name |-> "network", base_delay |-> Frac(2, 1), max_delay |-> 120,
   exponential_base |-> Frac(2, 1), jitter |-> TRUE, backoff_factor |-> Frac(1, 1)]

API_RETRY_CONFIG ==
  [name |-> "api", base_delay |-> Frac(1, 1), max_delay |-> 30,
   exponential_base |-> Frac(3, 2), jitter |-> TRUE, backoff_factor |-> Frac(1, 1)]

DATABASE_RETRY_CONFIG ==
  [name |-> "database", base_delay |-> Frac(1, 2), max_delay |-> 10,
   exponential_base |-> Frac(2, 1), jitter |-> FALSE, backoff_factor |-> Frac(1, 1)]

RetryConfigs ==
  {DefaultRetryConfig, NETWORK_RETRY_CONFIG, API_RETRY_CONFIG, DATABASE_RETRY_CONFIG}

RECURSIVE Pow(_, _)
Pow(b, k) == IF k = 0 THEN 1 ELSE b * Pow(b, k - 1)

\* (variant: the exponent is attempt instead of attempt - 1)
calculate_delay_from_attempt(config, nth) ==
  LET num == config.base_delay.num * Pow(config.exponential_base.num, nth)
               * config.backoff_factor.num
      den == config.base_delay.den * Pow(config.exponential_base.den, nth)
               * config.backoff_factor.den
  IN IF num <= config.max_delay * den THEN Frac(num, den) ELSE Frac(config.max_delay, 1)

\* calculate_delay before the jitter: base_delay * exponential_base ** (attempt - 1),
\* times backoff_factor, then min(delay, max_delay)
calculate_delay(config, nth) ==
  LET num == config.base_delay.num * Pow(config.exponential_base.num, nth - 1)
               * config.backoff_factor.num
      den == config.base_delay.den * Pow(config.exponential_base.den, nth - 1)
               * config.backoff_factor.den
  IN IF num <= config.max_delay * den THEN Frac(num, den) ELSE Frac(config.max_delay, 1)

DelayInit ==
  /\ backoff \in {[config |-> c, attempt |-> 0, delay |-> Frac(0, 1), jitter |-> FALSE,
                   previous |-> [attempt |-> 0, delay |-> Frac(0, 1)]] : c \in RetryConfigs}

\* calculate_delay(attempt), nth being the attempt; jitter tells whether the
\* returned value is the delay moved by up to 10% either way
CalculateDelay(nth) ==
  /\ backoff' = [backoff EXCEPT !.attempt = nth,
                                !.delay = calculate_delay(backoff.config, nth),
                                !.jitter = backoff.config.jitter,
                                !.previous = [attempt |-> backoff.attempt,
                                              delay |-> backoff.delay]]
  /\ UNCHANGED <<tasks, running_futures, fut, workQueue, wtask, wpc, wunit, stats,
                 running, shutdown_event, enable_schedule, schedule_jobs, starts, op,
                 pc, arg, todo, last, bodyRuns, interrupted, submitBegun,
                 cancelledFirst, backend, job_listings, db_stats, db_last, db_batch,
                 client, cookie_manager, cookies, max_retry, s_pc, attempt, depth,
                 cookie_refreshed, sent, reqlog, lastreq, s_ret, calls, max_attempts,
                 retry_exceptions, r_pc, attempt_count, invocations, sleeps,
                 last_exception, all_retryable, r_ret, proxies, current_index, p_last,
                 h_max, h_pc, h_attempt, a_left, h_proxy, wire, h_last, saw_other,
                 h_ret, enable_deduplication, seen_job_ids, dp_pc, dp_arg, dp_out,
                 dp_stats, m_stats, last_success_time, m_health, v_data, v_result,
                 v_done, crawl, crawl_log, ro, export, add_records, notion, ua, ua_sel,
                 processed, spider, unit, used_closed, tx, tx_count, loops, sal>>

DelayNext == \E nth \in 1..MaxDelayAttempt : CalculateDelay(nth)

\* ------------------------------- _execute_task, the body of a (keyword, city) unit
\* _initialize_components builds the JobSpider once; its request handler and
\* database manager start open and nothing reopens them
UnitInit ==
  /\ spider = [request_handler |-> "open", database_manager |-> "open"]
  /\ unit = [th \in DpThreads |-> [pc |-> "idle", left |-> 0, results |-> FALSE]]
  /\ used_closed = {}

\* what a use of a component adds to the uses of closed components
UseOf(component) == IF spider[component] = "closed" THEN {component} ELSE {}

\* a pool thread starts _execute_task of a task of n units, not interrupted
UnitBegin(th, n) ==
  /\ unit[th].pc = "idle"
  /\ unit[th].left = 0
  /\ unit' = [unit EXCEPT ![th] = [pc |-> "crawl", left |-> n, results |-> FALSE]]
  /\ UNCHANGED <<tasks, running_futures, fut, workQueue, wtask, wpc, wunit, stats,
                 running, shutdown_event, enable_schedule, schedule_jobs, starts, op,
                 pc, arg, todo, last, bodyRuns, interrupted, submitBegun,
                 cancelledFirst, backend, job_listings, db_stats, db_last, db_batch,
                 client, cookie_manager, cookies, max_retry, s_pc, attempt, depth,
                 cookie_refreshed, sent, reqlog, lastreq, s_ret, calls, max_attempts,
                 retry_exceptions, r_pc, attempt_count, invocations, sleeps,
                 last_exception, all_retryable, r_ret, proxies, current_index, p_last,
                 h_max, h_pc, h_attempt, a_left, h_proxy, wire, h_last, saw_other,
                 h_ret, enable_deduplication, seen_job_ids, dp_pc, dp_arg, dp_out,
                 dp_stats, m_stats, last_success_time, m_health, v_data, v_result,
                 v_done, crawl, crawl_log, ro, export, add_records, notion, ua, ua_sel,
                 processed, backoff, spider, used_closed, tx, tx_count, loops, sal>>

\* with self.spider: crawl_results = list(self.spider.crawl_jobs(...)), which
\* sends its searches through the request handler
UnitCrawl(th, results) ==
  /\ unit[th].pc = "crawl"
  /\ used_closed' = used_closed \cup UseOf("request_handler")
  /\ unit' = [unit EXCEPT ![th].pc = "exit", ![th].results = results]
  /\ UNCHANGED <<tasks, running_futures, fut, workQueue, wtask, wpc, wunit, stats,
                 running, shutdown_event, enable_schedule, schedule_jobs, starts, op,
                 pc, arg, todo, last, bodyRuns, interrupted, submitBegun,
                 cancelledFirst, backend, job_listings, db_stats, db_last, db_batch,
                 client, cookie_manager, cookies, max_retry, s_pc, attempt, depth,
                 cookie_refreshed, sent, reqlog, lastreq, s_ret, calls, max_attempts,
                 retry_exceptions, r_pc, attempt_count, invocations, sleeps,
                 last_exception, all_retryable, r_ret, proxies, current_index, p_last,
                 h_max, h_pc, h_attempt, a_left, h_proxy, wire, h_last, saw_other,
                 h_ret, enable_deduplication, seen_job_ids, dp_pc, dp_arg, dp_out,
                 dp_stats, m_stats, last_success_time, m_health, v_data, v_result,
                 v_done, crawl, crawl_log, ro, export, add_records, notion, ua, ua_sel,
                 processed, backoff, spider, tx, tx_count, loops, sal>>

\* JobSpider.__exit__: close() closes the request handler and the database manager
UnitExit(th) ==
  /\ unit[th].pc = "exit"
  /\ spider' = [request_handler |-> "closed", database_manager |-> "closed"]
  /\ unit' = [unit EXCEPT ![th].pc = "save"]
  /\ UNCHANGED <<tasks, running_futures, fut, workQueue, wtask, wpc, wunit, stats,
                 running, shutdown_event, enable_schedule, schedule_jobs, starts, op,
                 pc, arg, todo, last, bodyRuns, interrupted, submitBegun,
                 cancelledFirst, backend, job_listings, db_stats, db_last, db_batch,
                 client, cookie_manager, cookies, max_retry, s_pc, attempt, depth,
                 cookie_refreshed, sent, reqlog, lastreq, s_ret, calls, max_attempts,
                 retry_exceptions, r_pc, attempt_count, invocations, sleeps,
                 last_exception, all_retryable, r_ret, proxies, current_index, p_last,
                 h_max, h_pc, h_attempt, a_left, h_proxy, wire, h_last, saw_other,
                 h_ret, enable_deduplication, seen_job_ids, dp_pc, dp_arg, dp_out,
                 dp_stats, m_stats, last_success_time, m_health, v_data, v_result,
                 v_done, crawl, crawl_log, ro, export, add_records, notion, ua, ua_sel,
                 processed, backoff, used_closed, tx, tx_count, loops, sal>>

\* if crawl_results: process_batch; if processed_jobs:
\* self.spider.database_manager.batch_insert_job_listings(processed_jobs);
\* then the delay and the next unit, or the end of the loops
UnitSave(th, processed_jobs) ==
  /\ unit[th].pc = "save"
  /\ processed_jobs => unit[th].results
  /\ used_closed' = IF processed_jobs THEN used_closed \cup UseOf("database_manager")
                    ELSE used_closed
  /\ unit' = [unit EXCEPT ![th].left = @ - 1,
                          ![th].pc = IF unit[th].left > 1 THEN "crawl" ELSE "done"]
  /\ UNCHANGED <<tasks, running_futures, fut, workQueue, wtask, wpc, wunit, stats,
                 running, shutdown_event, enable_schedule, schedule_jobs, starts, op,
                 pc, arg, todo, last, bodyRuns, interrupted, submitBegun,
                 cancelledFirst, backend, job_listings, db_stats, db_last, db_batch,
                 client, cookie_manager, cookies, max_retry, s_pc, attempt, depth,
                 cookie_refreshed, sent, reqlog, lastreq, s_ret, calls, max_attempts,
                 retry_exceptions, r_pc, attempt_count, invocations, sleeps,
                 last_exception, all_retryable, r_ret, proxies, current_index, p_last,
                 h_max, h_pc, h_attempt, a_left, h_proxy, wire, h_last, saw_other,
                 h_ret, enable_deduplication, seen_job_ids, dp_pc, dp_arg, dp_out,
                 dp_stats, m_stats, last_success_time, m_health, v_data, v_result,
                 v_done, crawl, crawl_log, ro, export, add_records, notion, ua, ua_sel,
                 processed, backoff, spider, tx, tx_count, loops, sal>>

UnitNext ==
  \/ \E th \in DpThreads, n \in 1..MaxUnits : UnitBegin(th, n)
  \/ \E th \in DpThreads, results \in BOOLEAN : UnitCrawl(th, results)
  \/ \E th \in DpThreads : UnitExit(th)
  \/ \E th \in DpThreads, processed_jobs \in BOOLEAN : UnitSave(th, processed_jobs)

\* --------------------------------- database_manager.py, get_transaction scope
\* the scope before it is entered
NoScope ==
  [pc |-> "idle", engine |-> "none", connection |-> "none", trans |-> "none",
   body |-> "none", rollback_called |-> FALSE, raised |-> FALSE]

TxInit ==
  /\ tx = NoScope
  /\ tx_count = [entered |-> 0, committed |-> 0, rolled_back |-> 0, disposed |-> 0]

\* (variant: the engine is released only together with a connection)
FinallyWithConnection(t) ==
  [t EXCEPT !.connection = IF t.connection = "open" THEN "closed" ELSE @,
            !.trans = IF t.trans = "open" THEN "rolled back" ELSE @,
            !.engine = IF t.connection = "open" /\ t.engine = "created"
                       THEN "disposed" ELSE @,
            !.pc = "exited"]

\* the finally block: if connection: connection.close(); if engine:
\* engine.dispose(). Closing a connection ends a transaction still open on it
\* by rolling it back.
Finally(t) ==
  [t EXCEPT !.connection = IF t.connection = "open" THEN "closed" ELSE @,
            !.trans = IF t.trans = "open" THEN "rolled back" ELSE @,
            !.engine = IF t.engine = "created" THEN "disposed" ELSE @,
            !.pc = "exited"]

\* the except block: if trans: trans.rollback(); raise
Except(t) ==
  [t EXCEPT !.trans = IF t.trans # "none" THEN "rolled back" ELSE @,
            !.rollback_called = t.trans # "none",
            !.raised = TRUE]

\* with db.get_transaction() as connection: the part before the yield, where
\* fails names the call that raises, if any
TxEnter(fails) ==
  /\ tx.pc \in {"idle", "exited"}
  /\ tx_count.entered < MaxTransactions
  /\ tx' = CASE fails = "create_engine" -> Finally(Except(NoScope))
             [] fails = "connect" -> Finally(Except([NoScope EXCEPT !.engine = "created"]))
             [] fails = "begin" ->
                  Finally(Except([NoScope EXCEPT !.engine = "created",
                                                 !.connection = "open"]))
             [] OTHER -> [NoScope EXCEPT !.engine = "created", !.connection = "open",
                                         !.trans = "open", !.pc = "body"]
  /\ tx_count' = [tx_count EXCEPT !.entered = @ + 1,
                                  !.disposed = IF tx'.engine = "disposed" THEN @ + 1 ELSE @]
  /\ UNCHANGED <<tasks, running_futures, fut, workQueue, wtask, wpc, wunit, stats,
                 running, shutdown_event, enable_schedule, schedule_jobs, starts, op,
                 pc, arg, todo, last, bodyRuns, interrupted, submitBegun,
                 cancelledFirst, backend, job_listings, db_stats, db_last, db_batch,
                 client, cookie_manager, cookies, max_retry, s_pc, attempt, depth,
                 cookie_refreshed, sent, reqlog, lastreq, s_ret, calls, max_attempts,
                 retry_exceptions, r_pc, attempt_count, invocations, sleeps,
                 last_exception, all_retryable, r_ret, proxies, current_index, p_last,
                 h_max, h_pc, h_attempt, a_left, h_proxy, wire, h_last, saw_other,
                 h_ret, enable_deduplication, seen_job_ids, dp_pc, dp_arg, dp_out,
                 dp_stats, m_stats, last_success_time, m_health, v_data, v_result,
                 v_done, crawl, crawl_log, ro, export, add_records, notion, ua, ua_sel,
                 processed, backoff, spider, unit, used_closed, loops, sal>>

\* the body of the with statement ends: normally, and trans.commit() succeeds
\* or raises; with an Exception; or with an exception that is no Exception
\* (KeyboardInterrupt), which passes the except block by
TxLeave(outcome) ==
  /\ tx.pc = "body"
  /\ tx' = CASE outcome = "commit" ->
                  Finally([tx EXCEPT !.body = "finished", !.trans = "committed"])
             [] outcome = "commit raises" ->
                  Finally(Except([tx EXCEPT !.body = "finished"]))
             [] outcome = "Exception" -> Finally(Except([tx EXCEPT !.body = "raised"]))
             [] OTHER -> Finally([tx EXCEPT !.body = "raised", !.raised = TRUE])
  /\ tx_count' = [tx_count EXCEPT
                    !.committed = IF tx'.trans = "committed" THEN @ + 1 ELSE @,
                    !.rolled_back = IF tx'.trans = "rolled back" THEN @ + 1 ELSE @,
                    !.disposed = IF tx'.engine = "disposed" THEN @ + 1 ELSE @]
  /\ UNCHANGED <<tasks, running_futures, fut, workQueue, wtask, wpc, wunit, stats,
                 running, shutdown_event, enable_schedule, schedule_jobs, starts, op,
                 pc, arg, todo, last, bodyRuns, interrupted, submitBegun,
                 cancelledFirst, backend, job_listings, db_stats, db_last, db_batch,
                 client, cookie_manager, cookies, max_retry, s_pc, attempt, depth,
                 cookie_refreshed, sent, reqlog, lastreq, s_ret, calls, max_attempts,
                 retry_exceptions, r_pc, attempt_count, invocations, sleeps,
                 last_exception, all_retryable, r_ret, proxies, current_index, p_last,
                 h_max, h_pc, h_attempt, a_left, h_proxy, wire, h_last, saw_other,
                 h_ret, enable_deduplication, seen_job_ids, dp_pc, dp_arg, dp_out,
                 dp_stats, m_stats, last_success_time, m_health, v_data, v_result,
                 v_done, crawl, crawl_log, ro, export, add_records, notion, ua, ua_sel,
                 processed, backoff, spider, unit, used_closed, loops, sal>>

TxNext ==
  \/ \E fails \in {"none", "create_engine", "connect", "begin"} : TxEnter(fails)
  \/ \E outcome \in {"commit", "commit raises", "Exception", "BaseException"} :
       TxLeave(outcome)

\* ------------- the three background loops: scheduler.py schedule_loop,
\* auth_manager.py _run_scheduler, database_health_monitor.py _monitor_loop
LoopNames == {"scheduler", "auth", "monitor"}

\* one loop object: its running flag (_running, is_running, is_monitoring),
\* the scheduler's _shutdown_event, the threads ever started (where each one
\* stands), the thread the object still refers to, and the starts so far
NoLoop ==
  [flag |-> FALSE, event |-> FALSE,
   threads |-> [i \in 1..MaxLoopThreads |-> "none"], handle |-> 0, starts |-> 0]

LoopsInit == loops = [L \in LoopNames |-> NoLoop]

\* the threads of a loop that have been started and have not returned
LiveThreads(L) == {i \in 1..MaxLoopThreads : loops[L].threads[i] \in {"check", "sleep"}}

\* the while condition of the loop
LoopCondition(L) ==
  IF L = "scheduler" THEN loops[L].flag /\ ~loops[L].event ELSE loops[L].flag

\* threading.Thread(target=...).start(): one more thread, about to test the
\* while condition
SpawnLoop(l) ==
  LET i == CHOOSE j \in 1..MaxLoopThreads :
             l.threads[j] = "none" /\ \A k \in 1..(j - 1) : l.threads[k] # "none"
  IN [l EXCEPT !.threads[i] = "check", !.handle = i, !.starts = @ + 1]

\* start, start_auto_update, start_monitoring: return if the flag is set; set
\* it (start also clears the shutdown event) and start the loop thread
LoopStart(L) ==
  /\ loops[L].starts < MaxLoopThreads
  /\ ~loops[L].flag
  /\ loops' = [loops EXCEPT ![L] = SpawnLoop([@ EXCEPT !.flag = TRUE, !.event = FALSE])]
  /\ UNCHANGED <<tasks, running_futures, fut, workQueue, wtask, wpc, wunit, stats,
                 running, shutdown_event, enable_schedule, schedule_jobs, starts, op,
                 pc, arg, todo, last, bodyRuns, interrupted, submitBegun,
                 cancelledFirst, backend, job_listings, db_stats, db_last, db_batch,
                 client, cookie_manager, cookies, max_retry, s_pc, attempt, depth,
                 cookie_refreshed, sent, reqlog, lastreq, s_ret, calls, max_attempts,
                 retry_exceptions, r_pc, attempt_count, invocations, sleeps,
                 last_exception, all_retryable, r_ret, proxies, current_index, p_last,
                 h_max, h_pc, h_attempt, a_left, h_proxy, wire, h_last, saw_other,
                 h_ret, enable_deduplication, seen_job_ids, dp_pc, dp_arg, dp_out,
                 dp_stats, m_stats, last_success_time, m_health, v_data, v_result,
                 v_done, crawl, crawl_log, ro, export, add_records, notion, ua, ua_sel,
                 processed, backoff, spider, unit, used_closed, tx, tx_count, sal>>

\* shutdown (returns at once unless _running; sets the event), stop_auto_update
\* and stop_monitoring (no test of the flag). stop_monitoring joins
\* monitor_thread for five seconds: the thread returns in that time, or the
\* join gives up and the thread is left where it sleeps.
LoopStop(L, joined) ==
  /\ L = "scheduler" => loops[L].flag
  /\ joined => /\ L = "monitor"
               /\ loops[L].handle # 0
               /\ loops[L].threads[loops[L].handle] \in {"check", "sleep"}
  /\ loops' = [loops EXCEPT ![L] =
                 [@ EXCEPT !.flag = FALSE,
                           !.event = IF L = "scheduler" THEN TRUE ELSE @,
                           !.threads = IF joined
                                       THEN [@ EXCEPT ![loops[L].handle] = "exited"]
                                       ELSE @]]
  /\ UNCHANGED <<tasks, running_futures, fut, workQueue, wtask, wpc, wunit, stats,
                 running, shutdown_event, enable_schedule, schedule_jobs, starts, op,
                 pc, arg, todo, last, bodyRuns, interrupted, submitBegun,
                 cancelledFirst, backend, job_listings, db_stats, db_last, db_batch,
                 client, cookie_manager, cookies, max_retry, s_pc, attempt, depth,
                 cookie_refreshed, sent, reqlog, lastreq, s_ret, calls, max_attempts,
                 retry_exceptions, r_pc, attempt_count, invocations, sleeps,
                 last_exception, all_retryable, r_ret, proxies, current_index, p_last,
                 h_max, h_pc, h_attempt, a_left, h_proxy, wire, h_last, saw_other,
                 h_ret, enable_deduplication, seen_job_ids, dp_pc, dp_arg, dp_out,
                 dp_stats, m_stats, last_success_time, m_health, v_data, v_result,
                 v_done, crawl, crawl_log, ro, export, add_records, notion, ua, ua_sel,
                 processed, backoff, spider, unit, used_closed, tx, tx_count, sal>>

\* a loop thread tests its while condition: the body and its sleep, or return
LoopCheck(L, i) ==
  /\ loops[L].threads[i] = "check"
  /\ loops' = [loops EXCEPT ![L].threads[i] =
                 IF LoopCondition(L) THEN "sleep" ELSE "exited"]
  /\ UNCHANGED <<tasks, running_futures, fut, workQueue, wtask, wpc, wunit, stats,
                 running, shutdown_event, enable_schedule, schedule_jobs, starts, op,
                 pc, arg, todo, last, bodyRuns, interrupted, submitBegun,
                 cancelledFirst, backend, job_listings, db_stats, db_last, db_batch,
                 client, cookie_manager, cookies, max_retry, s_pc, attempt, depth,
                 cookie_refreshed, sent, reqlog, lastreq, s_ret, calls, max_attempts,
                 retry_exceptions, r_pc, attempt_count, invocations, sleeps,
                 last_exception, all_retryable, r_ret, proxies, current_index, p_last,
                 h_max, h_pc, h_attempt, a_left, h_proxy, wire, h_last, saw_other,
                 h_ret, enable_deduplication, seen_job_ids, dp_pc, dp_arg, dp_out,
                 dp_stats, m_stats, last_success_time, m_health, v_data, v_result,
                 v_done, crawl, crawl_log, ro, export, add_records, notion, ua, ua_sel,
                 processed, backoff, spider, unit, used_closed, tx, tx_count, sal>>

\* time.sleep returns: back to the while condition
LoopSleepEnds(L, i) ==
  /\ loops[L].threads[i] = "sleep"
  /\ loops' = [loops EXCEPT ![L].threads[i] = "check"]
  /\ UNCHANGED <<tasks, running_futures, fut, workQueue, wtask, wpc, wunit, stats,
                 running, shutdown_event, enable_schedule, schedule_jobs, starts, op,
                 pc, arg, todo, last, bodyRuns, interrupted, submitBegun,
                 cancelledFirst, backend, job_listings, db_stats, db_last, db_batch,
                 client, cookie_manager, cookies, max_retry, s_pc, attempt, depth,
                 cookie_refreshed, sent, reqlog, lastreq, s_ret, calls, max_attempts,
                 retry_exceptions, r_pc, attempt_count, invocations, sleeps,
                 last_exception, all_retryable, r_ret, proxies, current_index, p_last,
                 h_max, h_pc, h_attempt, a_left, h_proxy, wire, h_last, saw_other,
                 h_ret, enable_deduplication, seen_job_ids, dp_pc, dp_arg, dp_out,
                 dp_stats, m_stats, last_success_time, m_health, v_data, v_result,
                 v_done, crawl, crawl_log, ro, export, add_records, notion, ua, ua_sel,
                 processed, backoff, spider, unit, used_closed, tx, tx_count, sal>>

LoopsNext ==
  \/ \E L \in LoopNames : LoopStart(L)
  \/ \E L \in LoopNames, joined \in BOOLEAN : LoopStop(L, joined)
  \/ \E L \in LoopNames, i \in 1..MaxLoopThreads : LoopCheck(L, i)
  \/ \E L \in LoopNames, i \in 1..MaxLoopThreads : LoopSleepEnds(L, i)

\* ---------------- salary ranges: data/processors.py transform_salary and a
\* direct call of DataValidator._parse_salary
\* a jobSalary text as transform_salary reads it: the runs of digits in the
\* order they occur (re.findall(r'(\d+)')), whether a hyphen occurs and whether
\* the negotiable marker occurs; "3 qian-1.2 wan" has the runs 3, 1, 2
DigitRuns ==
  UNION {[1..n -> 1..MaxRun] : n \in 0..3}

JobSalaries == [runs : DigitRuns, hyphen : BOOLEAN, negotiable : BOOLEAN]

NoItem == [runs |-> <<>>, hyphen |-> FALSE, negotiable |-> FALSE]

SalaryInit ==
  sal = [op |-> "none", item |-> NoItem, text |-> [shape |-> "", a |-> 0, b |-> 0],
         salary_min |-> Unset, salary_max |-> Unset]

\* transform_salary, one item: with a hyphen and two runs or more, the first two
\* runs become salary_min and salary_max; None (Unset) for a negotiable salary;
\* no entries otherwise
transform_salary(item) ==
  IF item.hyphen /\ Len(item.runs) >= 2
  THEN [min |-> item.runs[1], max |-> item.runs[2]]
  ELSE NoSalary

TransformSalary(item) ==
  /\ sal' = [op |-> "transform_salary", item |-> item,
             text |-> [shape |-> "", a |-> 0, b |-> 0],
             salary_min |-> transform_salary(item).min,
             salary_max |-> transform_salary(item).max]
  /\ UNCHANGED <<tasks, running_futures, fut, workQueue, wtask, wpc, wunit, stats,
                 running, shutdown_event, enable_schedule, schedule_jobs, starts, op,
                 pc, arg, todo, last, bodyRuns, interrupted, submitBegun,
                 cancelledFirst, backend, job_listings, db_stats, db_last, db_batch,
                 client, cookie_manager, cookies, max_retry, s_pc, attempt, depth,
                 cookie_refreshed, sent, reqlog, lastreq, s_ret, calls, max_attempts,
                 retry_exceptions, r_pc, attempt_count, invocations, sleeps,
                 last_exception, all_retryable, r_ret, proxies, current_index, p_last,
                 h_max, h_pc, h_attempt, a_left, h_proxy, wire, h_last, saw_other,
                 h_ret, enable_deduplication, seen_job_ids, dp_pc, dp_arg, dp_out,
                 dp_stats, m_stats, last_success_time, m_health, v_data, v_result,
                 v_done, crawl, crawl_log, ro, export, add_records, notion, ua, ua_sel,
                 processed, backoff, spider, unit, used_closed, tx, tx_count, loops>>

\* salary_min, salary_max = _parse_salary(salary_text), in tenths
ParseSalary(text) ==
  /\ sal' = [op |-> "_parse_salary", item |-> NoItem, text |-> text,
             salary_min |-> _parse_salary(text).min,
             salary_max |-> _parse_salary(text).max]
  /\ UNCHANGED <<tasks, running_futures, fut, workQueue, wtask, wpc, wunit, stats,
                 running, shutdown_event, enable_schedule, schedule_jobs, starts, op,
                 pc, arg, todo, last, bodyRuns, interrupted, submitBegun,
                 cancelledFirst, backend, job_listings, db_stats, db_last, db_batch,
                 client, cookie_manager, cookies, max_retry, s_pc, attempt, depth,
                 cookie_refreshed, sent, reqlog, lastreq, s_ret, calls, max_attempts,
                 retry_exceptions, r_pc, attempt_count, invocations, sleeps,
                 last_exception, all_retryable, r_ret, proxies, current_index, p_last,
                 h_max, h_pc, h_attempt, a_left, h_proxy, wire, h_last, saw_other,
                 h_ret, enable_deduplication, seen_job_ids, dp_pc, dp_arg, dp_out,
                 dp_stats, m_stats, last_success_time, m_health, v_data, v_result,
                 v_done, crawl, crawl_log, ro, export, add_records, notion, ua, ua_sel,
                 processed, backoff, spider, unit, used_closed, tx, tx_count, loops>>

SalaryNext ==
  \/ \E item \in JobSalaries : TransformSalary(item)
  \/ \E text \in SalaryTexts : ParseSalary(text)

\* ------------------------------------------------------------ claims
Terminal == {COMPLETED, FAILED, CANCELLED}

\* no submit_task call is working on task t
NoSubmitOn(t) == \A th \in Threads : ~(op[th] = "submit_task" /\ arg[th] = t)

\* the main thread is not in cancel_task or shutdown
NoCancel == op["main"] \notin {"cancel_task", "shutdown"}

\* the body of t has run to its end and no call is working on t
Settled(t) == fut[t] = "finished" /\ NoSubmitOn(t) /\ NoCancel

\* work items of t in the executor's queue
Queued(t) == Cardinality({i \in DOMAIN workQueue : workQueue[i] = t})

\* C1: a task that has reached Completed, Failed or Cancelled never changes
\* status again, under any interleaving of submit_task, cancel_task, shutdown
\* and the worker.
C1_TerminalStatusIsFinal ==
  [][\A t \in DOMAIN tasks : is_completed(t) => tasks'[t].status = tasks[t].status]_vars

C3_NoCancelOnceStarted ==
  (last.call = "cancel_task" /\ last.started /\ last.ret # InProgress)
    => last.ret = False

\* C4: cancel_task on a task never submitted returns true and makes it
\* Cancelled; the task never runs, and a later submit_task on it is rejected.
C4_CancelBeforeSubmit ==
  /\ (last.call = "cancel_task" /\ last.pre = PENDING /\ last.unsubmitted)
       => (last.ret = True /\ last.task \in cancelledFirst)
  /\ \A t \in cancelledFirst :
       /\ tasks[t].status = CANCELLED
       /\ tasks[t].started_at = None
       /\ bodyRuns[t] = 0 /\ Queued(t) = 0
       /\ (last.call = "submit_task" /\ last.task = t) => last.ret = False

\* a task cancelled before any submit_task, then submitted and rejected
C4_Witness ==
  /\ last.call = "submit_task" /\ last.ret = False
  /\ last.task \in cancelledFirst

\* C5: a task whose body raised ends Failed with the error text recorded.
C5_RaisedEndsFailed ==
  \A t \in DOMAIN tasks :
    (tasks[t].error_message # None /\ Settled(t)) => tasks[t].status = FAILED

\* C6: a Completed task carries a start timestamp, a completion timestamp and
\* a non-empty results map; a Running task carries a start timestamp.
C6_StampsWithStatus ==
  \A t \in DOMAIN tasks :
    /\ tasks[t].status = COMPLETED =>
         (tasks[t].started_at # None /\ tasks[t].completed_at # None /\ tasks[t].results)
    /\ tasks[t].status = RUNNING => tasks[t].started_at # None

\* C7: a task that observed the shutdown signal with units remaining ends
\* Cancelled.
C7_InterruptedEndsCancelled ==
  \A t \in interrupted : Settled(t) => tasks[t].status = CANCELLED

\* nothing is queued or running, and no submit_task is under way
NothingOutstanding ==
  /\ \A w \in Workers : wtask[w] = 0
  /\ \A i \in DOMAIN workQueue : fut[workQueue[i]] = "cancelled"
  /\ \A th \in Threads : op[th] # "submit_task"

\* C8: wait_for_completion, with no timeout and no shutdown signal, does not
\* keep waiting when no task is queued or running.
C8_WaitEndsWhenIdle ==
  (op["main"] = "wait_for_completion" /\ ~shutdown_event /\ NothingOutstanding)
    => running_futures = <<>>

\* C9: when shutdown has ended it has returned, the trigger loop is stopped and
\* the installed triggers are cleared.
C9_ShutdownClears ==
  (last.call = "shutdown" /\ last.ret # InProgress)
    => (last.ret = "returned" /\ ~running /\ schedule_jobs = 0)

\* C10: inserting a record whose job_id is already stored returns false without
\* raising and leaves the rows as they were; no two rows share a job_id.
C10_DuplicateIsSkipped ==
  /\ db_last.stored => (db_last.ret = False /\ job_listings = db_last.before)
  /\ \A i, j \in DOMAIN job_listings : job_listings[i] = job_listings[j] => i = j


\* C11: batch_insert_job_listings on n records of which k have job_ids already
\* stored, the others new and distinct, returns (n-k, k) without raising, on
\* every backend and wherever the k records sit in the batch.
StoredIn(batch, rows) == {i \in DOMAIN batch : batch[i] \in Range(rows)}

NewAndDistinct(batch, rows) ==
  \A i \in DOMAIN batch \ StoredIn(batch, rows) :
    /\ batch[i] # 0
    /\ \A j \in DOMAIN batch : batch[j] = batch[i] => j = i

C11_BatchCounts ==
  (db_batch.batch # <<>> /\ NewAndDistinct(db_batch.batch, db_batch.before))
    => /\ ~db_batch.raised
       /\ db_batch.skipped = Cardinality(StoredIn(db_batch.batch, db_batch.before))
       /\ db_batch.inserted = Len(db_batch.batch) - db_batch.skipped


\* C12: when the first response of a search is a challenge and the next one a
\* normal 200 JSON body, the client sends exactly two requests, the second with
\* the acw_sc__v2 cookie derived from the token, and returns the second
\* response (so a call whose first response is a challenge sends a second one).
NormalJson == {"ok", "ok_error"}

C12_ChallengeThenOneRetry ==
  /\ (s_pc = "done" /\ Len(reqlog) >= 1 /\ reqlog[1].resp = "challenge") => sent >= 2
  /\ (Len(reqlog) = 2 /\ reqlog[1].resp = "challenge" /\ reqlog[2].resp \in NormalJson)
       => /\ sent = 2
          /\ reqlog[2].cookie = "derived"
          /\ s_pc = "done"
          /\ s_ret = Returned
          /\ lastreq.resp = reqlog[2].resp

\* C13: one search_jobs call (jobSearch.py, 51jobcrawler.py) sends at most its
\* retry budget of requests; with the budget used up and no usable response it
\* raises the maximum-retries-exceeded failure; every call has the full budget,
\* so that failure is never raised before the budget is spent.
C13_BoundedByBudget ==
  client \in {"jobSearch", "legacy"} =>
    /\ sent <= Budget(client)
    /\ (s_pc = "done" /\ s_ret = MaxRetryExceeded) => sent = Budget(client)
    /\ (s_pc = "done" /\ sent = Budget(client) /\ lastreq.resp # "transport"
          /\ s_ret # Returned) => s_ret = MaxRetryExceeded

\* C14: a response without challenge token, received while the cookie map
\* holds no acw_sc__v2, makes the search client (51jobcrawler.py, jobSearch.py)
\* raise the failed-to-obtain-challenge-token failure.
C14_NoTokenNoCookieIsFatal ==
  (client \in {"jobSearch", "legacy"} /\ sent > 0
     /\ lastreq.resp \notin {"challenge", "transport"} /\ lastreq.cookie = "none")
    => (s_pc = "done" /\ s_ret = FailedToGetArg1)


\* C15: execute_with_retry invokes the wrapped operation at most max_attempts
\* times; when every invocation fails with a retryable failure it makes exactly
\* max_attempts invocations, sleeps only between invocations (never after the
\* last one) and then raises the last failure.
C15_AtMostMaxAttempts ==
  /\ invocations <= max_attempts
  /\ sleeps <= invocations
  /\ r_pc = "invoke" => sleeps = invocations
  /\ r_pc = "done" => sleeps = invocations - 1
  /\ (r_pc = "done" /\ all_retryable)
       => /\ invocations = max_attempts
          /\ sleeps = max_attempts - 1
          /\ r_ret = last_exception
          /\ r_ret \in Failures

C15_Witness ==
  /\ r_pc = "done" /\ all_retryable /\ max_attempts = 3
  /\ invocations = 3 /\ sleeps = 2 /\ r_ret = "TimeoutError"

\* C16: with a restricted exception set, a failure whose kind is outside the
\* set is raised to the caller at once: no further invocation, no backoff sleep.
C16_OutsideSetPropagates ==
  (retry_exceptions # {} /\ last_exception # None /\ last_exception \notin retry_exceptions)
    => /\ r_pc = "done"
       /\ r_ret = last_exception
       /\ sleeps = invocations - 1

C16_Witness ==
  /\ retry_exceptions # {} /\ r_pc = "done" /\ r_ret = "ValueError"
  /\ invocations = 2 /\ sleeps = 1 /\ max_attempts = 4


NetworkFailures ==
  {"requests.RequestException", "requests.HTTPError", "requests.RetryError",
   "requests.ConnectionError"}

C17_AtMostMaxRequests ==
  /\ wire <= h_max
  /\ (h_pc = "done" /\ h_ret # Returned) => h_ret \in NetworkFailures

\* C18: a response whose status is neither 200, 403, 429 nor >= 500 makes the
\* call fail with an HTTP error after that single request: no further attempt.
C18_OtherStatusNotRetried ==
  saw_other => (h_pc = "done" /\ h_ret = "requests.HTTPError" /\ h_last.resp = "404")

\* C19: the outcome of a request sent through a proxy is recorded on that
\* proxy: 200 a success, 403 or 429 Banned, a status >= 500 a failure.
C19_OutcomeRecordedOnProxy ==
  (h_last.proxy # 0 /\ h_pc \in {"prepare", "done"}) =>
    LET p == proxies[h_last.proxy]
    IN /\ h_last.resp = "200" => p.success_count = h_last.before.success_count + 1
       /\ h_last.resp \in {"403", "429"} => p.status = BANNED
       /\ h_last.resp \in {"503", "521"} => p.failure_count = h_last.before.failure_count + 1


\* C21: with deduplication enabled one DataProcessor never returns two valid
\* records with the same job_id, also when process_job_data runs in several
\* worker threads at once.
C21_NoTwoRecordsPerJobId ==
  enable_deduplication => \A id \in DpIds : dp_out[id] <= 1


\* C22: the health check returns critical, with a reason, exactly when
\* consecutive failures > 10, or success rate < 30% with more than 20 requests,
\* or anti-bot hits > 50% of more than 10 requests, or the last success is more
\* than one hour old; otherwise normal.
C22_CriticalExactlyWhen ==
  m_health.fresh =>
    LET t == m_stats.total_requests
        cond == \/ m_stats.consecutive_failures >= 11
                \/ (t >= 21 /\ 10 * m_stats.successful_requests < 3 * t)
                \/ (t >= 11 /\ 2 * m_stats.anti_spider_hits > t)
                \/ last_success_time = "old"
    IN /\ m_health.critical <=> cond
       /\ m_health.critical <=> m_health.reason # "healthy"

C22_Witness ==
  /\ m_health.fresh /\ m_health.critical /\ m_health.reason = "success rate"
  /\ m_stats.total_requests = 25 /\ m_stats.successful_requests = 5

C22_WitnessRun ==
  /\ m_health.fresh /\ m_health.critical /\ m_stats.consecutive_failures = 11


\* C23: the cleaned record carries salary_min and salary_max as given by the
\* first matching row of the salary table (a-bK gives a and b; a qian-b wan/yue
\* gives a and b x 10; a negotiable marker gives no values), and unrecognized
\* salary text leaves both unset with a warning while the record stays valid.
C23_SalaryTable ==
  v_done =>
    LET t == v_data.provideSalaryString
        full == v_data.fields = REQUIRED_FIELDS
    IN /\ t.shape = "a-bK" =>
            v_result.salary_min = 10 * t.a /\ v_result.salary_max = 10 * t.b
       /\ t.shape = "a qian-b wan/yue" =>
            v_result.salary_min = 10 * t.a /\ v_result.salary_max = 100 * t.b
       /\ t.shape \in {"mianyi", "xinzi mianyi"} =>
            v_result.salary_min = Unset /\ v_result.salary_max = Unset
       /\ t.shape = "other" =>
            /\ v_result.salary_min = Unset /\ v_result.salary_max = Unset
            /\ v_result.warnings >= 1
            /\ full => v_result.is_valid


\* C24: crawl_jobs requests pages 1, 2, 3, ... in increasing order without gaps
\* or repeats, stops after the first page that fails, returns no items, is page
\* number max_pages, or satisfies page x pageSize >= totalCount, and never
\* requests more than max_pages pages.
C24_PagesInOrderUntilFirstStop ==
  LET n == Len(crawl_log)
      StopPage(i) == \/ ~crawl_log[i].result.success
                     \/ crawl_log[i].result.jobs = 0
                     \/ i = crawl.max_pages
                     \/ i * page_size >= crawl_log[i].result.total_count
  IN /\ \A i \in 1..n : crawl_log[i].page = i
     /\ crawl.pc # "idle" => n <= crawl.max_pages
     /\ \A i \in 1..(n - 1) : ~StopPage(i)
     /\ crawl.pc = "done" => n >= 1 /\ StopPage(n)
     /\ (crawl.pc = "loop" /\ crawl.page <= crawl.max_pages) =>
          (n = crawl.page - 1 /\ \A i \in 1..n : ~StopPage(i))

C24_Witness ==
  /\ crawl.pc = "done" /\ Len(crawl_log) = 2 /\ crawl.max_pages = 3
  /\ crawl_log[2].result.success /\ crawl_log[2].result.jobs > 0
  /\ crawl_log[2].result.total_count = 2 * page_size


\* C25: in run-once mode the process exits with code 0 only if the crawl task
\* ended Completed; a task that ends Failed or Cancelled, or a wait that times
\* out, yields a non-zero exit code.
C25_ExitZeroOnlyIfCompleted ==
  (ro.pc = "exited" /\ ro.exit_code = 0) => tasks[ro.task].status = COMPLETED


\* C26: exporting n records issues ceil(n/400) batch calls in order, each
\* holding between 1 and 400 records and together containing every record
\* exactly once.
C26_CeilBatches ==
  export.pc = "done" =>
    LET n == export.n
        k == Len(add_records)
    IN /\ k = (n + 399) \div 400
       /\ \A j \in 1..k : add_records[j].size >= 1 /\ add_records[j].size <= 400
       /\ \A j \in 1..k : add_records[j].first =
            (IF j = 1 THEN 1 ELSE add_records[j - 1].first + add_records[j - 1].size)
       /\ k >= 1 => add_records[k].first + add_records[k].size = n + 1


\* C27: add_content sends at most 10 page-creation requests per call: it returns
\* after the first 200 response, pauses 1 s after each 429, keeps retrying after
\* any other non-200 status, and raises the max-retries failure once 10 requests
\* have been made without a 200.
C27_TenRequestsAtMost ==
  /\ notion.requests <= 10
  /\ notion.requests = notion.sleeps + notion.others + (IF notion.status_code = 200 THEN 1 ELSE 0)
  /\ notion.ret = "returned" <=> notion.status_code = 200
  /\ notion.pc = "done" =>
       \/ notion.ret = "returned"
       \/ notion.ret = "raised MaxRetry" /\ notion.requests = 10


\* C28: with rotation enabled and more than one UA in the pool, get_random never
\* returns the same UA string as the immediately preceding selection, after any
\* sequence of get_random, add_agent, remove_agent, set_agent and reset_stats.
C28_NeverSameTwice ==
  (ua.rotation_enabled /\ ua_sel.rotated) => ua_sel.selected # ua_sel.previous


\* C29: process_job_data returns a non-empty processed record for an input that
\* has non-empty job_id, title and company_name together with the provider's
\* required raw fields at top level, even when the input has no raw_data entry.
C29_TopLevelRawFieldsSuffice ==
  LET j == processed.job_data
  IN (/\ processed.called /\ ~processed.duplicate
      /\ j.top = {"job_id", "title", "company_name"} /\ j.job_id_is_str
      /\ j.raw_top = {"jobId", "jobName", "companyName", "jobAreaString"})
       => processed.ret # None


\* C30: the pre-jitter retry delay for attempt n equals min(max_delay,
\* base_delay x exponential_base^(n-1) x backoff_factor): it is non-decreasing
\* in n and never exceeds max_delay; for the network preset it is 2, 4, 8, 16,
\* 32 s for attempts 1..5 and 120 s for every attempt >= 7.
C30_BackoffDelay ==
  backoff.attempt >= 1 =>
    LET c == backoff.config
        n == backoff.attempt
        d == backoff.delay
        p == backoff.previous
        rawNum == c.base_delay.num * c.backoff_factor.num * Pow(c.exponential_base.num, n - 1)
        rawDen == c.base_delay.den * c.backoff_factor.den * Pow(c.exponential_base.den, n - 1)
    IN /\ d.num <= c.max_delay * d.den
       /\ IF rawNum <= c.max_delay * rawDen
          THEN d.num * rawDen = rawNum * d.den
          ELSE d.num = c.max_delay * d.den
       /\ (p.attempt >= 1 /\ p.attempt <= n) => p.delay.num * d.den <= d.num * p.delay.den
       /\ c.name = "network" =>
            /\ n <= 5 => d.num = Pow(2, n) * d.den
            /\ n >= 7 => d.num = 120 * d.den

C30_Witness ==
  /\ backoff.config.name = "network" /\ backoff.attempt = 7
  /\ backoff.previous.attempt = 5 /\ backoff.previous.delay = Frac(32, 1)
  /\ backoff.delay = Frac(120, 1)


\* C31: after batch_insert_job_listings returns (inserted, skipped), exactly
\* `inserted` new rows of that batch are stored: a duplicate met part-way
\* through the batch does not discard records already counted as inserted.
C31_InsertedRowsAreStored ==
  [][(db_batch' # db_batch /\ ~db_batch'.raised)
       => Len(job_listings') = Len(job_listings) + db_batch'.inserted]_vars


\* C32: no task uses the shared spider's HTTP session or database manager after
\* they have been closed, whether closed at the end of one (keyword, city) unit
\* or by another concurrently running task.
C32_NoUseAfterClose == used_closed = {}


\* C33: after shutdown has been requested no calendar trigger creates or submits
\* a new task, including a trigger that was already sleeping its random start
\* delay when shutdown began.
C33_NoTriggerTaskAfterShutdown ==
  [][shutdown_event =>
       /\ (Len(tasks') > Len(tasks) => tasks'[Len(tasks')].owner # "trig")
       /\ (Len(workQueue') > Len(workQueue) =>
             tasks[workQueue'[Len(workQueue')]].owner # "trig")]_vars


\* C34: in the raw-engine transaction scope the transaction is committed if and
\* only if the body finishes without raising (and the commit itself succeeds),
\* is rolled back on any failure, and on every exit path the connection is
\* closed and the engine disposed.
C34_CommitOrRollbackThenRelease ==
  tx.pc = "exited" =>
    /\ tx.trans = "committed" <=> (tx.body = "finished" /\ ~tx.raised)
    /\ tx.body = "finished" => tx.trans \in {"committed", "rolled back"}
    /\ tx.raised => tx.trans \in {"none", "rolled back"}
    /\ tx.trans = "committed" => ~tx.rollback_called
    /\ tx.connection \in {"none", "closed"}
    /\ tx.engine \in {"none", "disposed"}
    /\ (tx.body # "none") => (tx.connection = "closed" /\ tx.engine = "disposed")

C34_Witness ==
  /\ tx.pc = "exited" /\ tx.body = "raised" /\ tx.trans = "rolled back"
  /\ tx.rollback_called /\ tx.connection = "closed" /\ tx.engine = "disposed"

C34_WitnessConnectFails ==
  tx.pc = "exited" /\ tx.connection = "none" /\ tx.engine = "disposed" /\ tx.raised

\* C35: for each of the scheduler's trigger loop, the Auth Manager's
\* auto-refresh loop and the Database Health Monitor's probe loop, at most one
\* loop thread is running at any time, after any sequence of start and
\* stop/shutdown calls.
C35_AtMostOneLoopThread == \A L \in LoopNames : Cardinality(LiveThreads(L)) <= 1

\* two threads of one loop are both inside the loop body while the flag is set
C35_TwoLoopThreads ==
  \E L \in LoopNames :
    /\ LoopCondition(L)
    /\ Cardinality({i \in 1..MaxLoopThreads : loops[L].threads[i] = "sleep"}) = 2

\* C36: a proxy that was added to the pool and passed a health check (status
\* Active, no recorded failures) can be returned by get_proxy: with such a proxy
\* present, a call of get_proxy does not return no-proxy.
C36_CheckedProxySelectable ==
  (/\ p_last.op = "get_proxy"
   /\ \E i \in DOMAIN proxies : proxies[i].status = ACTIVE /\ proxies[i].failure_count = 0)
    => p_last.proxy # 0

\* get_proxy has returned None from a pool whose only proxy passed its check
C36_CheckedProxyRefused ==
  /\ p_last = [op |-> "get_proxy", proxy |-> 0]
  /\ Len(proxies) = 1
  /\ proxies[1] = [status |-> ACTIVE, success_count |-> 0, failure_count |-> 0, timed |-> TRUE]

\* C37: the record returned by process_job_data for a valid input carries the
\* results of the cleaning, standardization and enrichment steps applied to it:
\* its industry is the canonical form the standardization step produced.
C37_ReturnsEnrichedRecord ==
  (processed.called /\ processed.ret # None)
    => processed.industry = processed.enriched_industry

\* a listed industry name comes back as it was in the raw payload
C37_RawIndustryReturned ==
  /\ processed.called /\ processed.ret # None
  /\ processed.job_data.industry = "computer software"
  /\ processed.enriched_industry = "IT/Internet"
  /\ processed.industry = "computer software"

C39_SalaryMinAtMostMax ==
  (sal.salary_min # Unset /\ sal.salary_max # Unset) => sal.salary_min <= sal.salary_max

\* an item whose jobSalary reads "3 qian-1.2 wan" after transform_salary
C39_MinAboveMax ==
  /\ sal.op = "transform_salary" /\ sal.item.runs = <<3, 1, 2>> /\ sal.item.hyphen
  /\ sal.salary_min = 3 /\ sal.salary_max = 1

\* C40: whenever no task body is executing, the scheduler's completed, failed
\* and cancelled counters equal the numbers of tasks whose status is Completed,
\* Failed and Cancelled respectively, so the derived running_tasks figure equals
\* the number of non-terminal tasks.
TasksWithStatus(s) == Cardinality({t \in DOMAIN tasks : tasks[t].status = s})

running_tasks ==
  stats.total_tasks - stats.completed_tasks - stats.failed_tasks - stats.cancelled_tasks

C40_CountersMatchStatuses ==
  ((\A w \in Workers : wtask[w] = 0) /\ (\A th \in Threads : op[th] \in {"idle", "off"}))
    => /\ stats.completed_tasks = TasksWithStatus(COMPLETED)
       /\ stats.failed_tasks = TasksWithStatus(FAILED)
       /\ stats.cancelled_tasks = TasksWithStatus(CANCELLED)
       /\ running_tasks = Cardinality({t \in DOMAIN tasks : tasks[t].status \notin Terminal})

\* a task ended Cancelled by the shutdown signal and no counter has moved
C40_InterruptedNotCounted ==
  /\ \A w \in Workers : wtask[w] = 0
  /\ \A th \in Threads : op[th] \in {"idle", "off"}
  /\ \E t \in DOMAIN tasks : t \in interrupted /\ tasks[t].status = CANCELLED
  /\ stats.cancelled_tasks = 0

\* ------------------------------------------------------------ specifications
\* the components a specification leaves alone start in one fixed state
DbQuiet == DbInit /\ backend = "sqlite"

SearchQuiet == SearchInit /\ client = "jobSearch" /\ cookie_manager /\ cookies = "none"

SchedQuiet == SchedInit /\ enable_schedule = FALSE

RetryQuiet == RetryInit /\ max_attempts = 1 /\ retry_exceptions = {}

RequestQuiet == RequestInit /\ h_max = default_max_retries

DpQuiet == DpInit /\ enable_deduplication

MonitorQuiet == MonitorInit

ValidatorQuiet == ValidatorInit

CrawlQuiet == CrawlInit

RunOnceQuiet == ro = [pc |-> "off", task |-> 0, success |-> FALSE, exit_code |-> 0]

ExportQuiet == ExportInit

NotionQuiet == NotionInit

UserAgentQuiet == UserAgentInit /\ ua.rotation_enabled

ProcessQuiet == ProcessInit

DelayQuiet == DelayInit /\ backoff.config = DefaultRetryConfig

UnitQuiet == UnitInit

TxQuiet == TxInit

LoopsQuiet == LoopsInit

SalaryQuiet == SalaryInit

Init == SchedInit /\ DbQuiet /\ SearchQuiet /\ RetryQuiet /\ ProxyInit /\ RequestQuiet /\ DpQuiet /\ MonitorQuiet /\ ValidatorQuiet /\ CrawlQuiet /\ RunOnceQuiet /\ ExportQuiet /\ NotionQuiet /\ UserAgentQuiet /\ ProcessQuiet /\ DelayQuiet /\ UnitQuiet /\ TxQuiet /\ LoopsQuiet /\ SalaryQuiet

Spec == Init /\ [][SchedNext]_vars

InitDb == SchedQuiet /\ DbInit /\ SearchQuiet /\ RetryQuiet /\ ProxyInit /\ RequestQuiet /\ DpQuiet /\ MonitorQuiet /\ ValidatorQuiet /\ CrawlQuiet /\ RunOnceQuiet /\ ExportQuiet /\ NotionQuiet /\ UserAgentQuiet /\ ProcessQuiet /\ DelayQuiet /\ UnitQuiet /\ TxQuiet /\ LoopsQuiet /\ SalaryQuiet

SpecDb == InitDb /\ [][DbNext]_vars


InitSearch == SchedQuiet /\ DbQuiet /\ SearchInit /\ RetryQuiet /\ ProxyInit /\ RequestQuiet /\ DpQuiet /\ MonitorQuiet /\ ValidatorQuiet /\ CrawlQuiet /\ RunOnceQuiet /\ ExportQuiet /\ NotionQuiet /\ UserAgentQuiet /\ ProcessQuiet /\ DelayQuiet /\ UnitQuiet /\ TxQuiet /\ LoopsQuiet /\ SalaryQuiet

SpecSearch == InitSearch /\ [][SearchNext]_vars

InitRetry == SchedQuiet /\ DbQuiet /\ SearchQuiet /\ RetryInit /\ ProxyInit /\ RequestQuiet /\ DpQuiet /\ MonitorQuiet /\ ValidatorQuiet /\ CrawlQuiet /\ RunOnceQuiet /\ ExportQuiet /\ NotionQuiet /\ UserAgentQuiet /\ ProcessQuiet /\ DelayQuiet /\ UnitQuiet /\ TxQuiet /\ LoopsQuiet /\ SalaryQuiet

SpecRetry == InitRetry /\ [][RetryNext]_vars

InitProxy == SchedQuiet /\ DbQuiet /\ SearchQuiet /\ RetryQuiet /\ ProxyInit /\ RequestQuiet /\ DpQuiet /\ MonitorQuiet /\ ValidatorQuiet /\ CrawlQuiet /\ RunOnceQuiet /\ ExportQuiet /\ NotionQuiet /\ UserAgentQuiet /\ ProcessQuiet /\ DelayQuiet /\ UnitQuiet /\ TxQuiet /\ LoopsQuiet /\ SalaryQuiet

SpecProxy == InitProxy /\ [][ProxyNext]_vars

InitRequest == SchedQuiet /\ DbQuiet /\ SearchQuiet /\ RetryQuiet /\ ProxyInit /\ RequestInit /\ DpQuiet /\ MonitorQuiet /\ ValidatorQuiet /\ CrawlQuiet /\ RunOnceQuiet /\ ExportQuiet /\ NotionQuiet /\ UserAgentQuiet /\ ProcessQuiet /\ DelayQuiet /\ UnitQuiet /\ TxQuiet /\ LoopsQuiet /\ SalaryQuiet

SpecRequest == InitRequest /\ [][RequestNext]_vars

InitDp == SchedQuiet /\ DbQuiet /\ SearchQuiet /\ RetryQuiet /\ ProxyInit /\ RequestQuiet /\ DpInit /\ MonitorQuiet /\ ValidatorQuiet /\ CrawlQuiet /\ RunOnceQuiet /\ ExportQuiet /\ NotionQuiet /\ UserAgentQuiet /\ ProcessQuiet /\ DelayQuiet /\ UnitQuiet /\ TxQuiet /\ LoopsQuiet /\ SalaryQuiet

SpecDp == InitDp /\ [][DpNext]_vars

InitMonitor == SchedQuiet /\ DbQuiet /\ SearchQuiet /\ RetryQuiet /\ ProxyInit /\ RequestQuiet /\ DpQuiet /\ MonitorInit /\ ValidatorQuiet /\ CrawlQuiet /\ RunOnceQuiet /\ ExportQuiet /\ NotionQuiet /\ UserAgentQuiet /\ ProcessQuiet /\ DelayQuiet /\ UnitQuiet /\ TxQuiet /\ LoopsQuiet /\ SalaryQuiet

SpecMonitor == InitMonitor /\ [][MonitorNext]_vars

InitValidator == SchedQuiet /\ DbQuiet /\ SearchQuiet /\ RetryQuiet /\ ProxyInit /\ RequestQuiet /\ DpQuiet /\ MonitorQuiet /\ ValidatorInit /\ CrawlQuiet /\ RunOnceQuiet /\ ExportQuiet /\ NotionQuiet /\ UserAgentQuiet /\ ProcessQuiet /\ DelayQuiet /\ UnitQuiet /\ TxQuiet /\ LoopsQuiet /\ SalaryQuiet

SpecValidator == InitValidator /\ [][ValidatorNext]_vars

InitCrawl == SchedQuiet /\ DbQuiet /\ SearchQuiet /\ RetryQuiet /\ ProxyInit /\ RequestQuiet /\ DpQuiet /\ MonitorQuiet /\ ValidatorQuiet /\ CrawlInit /\ RunOnceQuiet /\ ExportQuiet /\ NotionQuiet /\ UserAgentQuiet /\ ProcessQuiet /\ DelayQuiet /\ UnitQuiet /\ TxQuiet /\ LoopsQuiet /\ SalaryQuiet

SpecCrawl == InitCrawl /\ [][CrawlNext]_vars

InitRunOnce == SchedInit /\ DbQuiet /\ SearchQuiet /\ RetryQuiet /\ ProxyInit /\ RequestQuiet /\ DpQuiet /\ MonitorQuiet /\ ValidatorQuiet /\ CrawlQuiet /\ RunOnceInit /\ ExportQuiet /\ NotionQuiet /\ UserAgentQuiet /\ ProcessQuiet /\ DelayQuiet /\ UnitQuiet /\ TxQuiet /\ LoopsQuiet /\ SalaryQuiet

SpecRunOnce == InitRunOnce /\ [][RunOnceNext]_vars

InitExport == SchedQuiet /\ DbQuiet /\ SearchQuiet /\ RetryQuiet /\ ProxyInit /\ RequestQuiet /\ DpQuiet /\ MonitorQuiet /\ ValidatorQuiet /\ CrawlQuiet /\ RunOnceQuiet /\ ExportInit /\ NotionQuiet /\ UserAgentQuiet /\ ProcessQuiet /\ DelayQuiet /\ UnitQuiet /\ TxQuiet /\ LoopsQuiet /\ SalaryQuiet

SpecExport == InitExport /\ [][ExportNext]_vars

InitNotion == SchedQuiet /\ DbQuiet /\ SearchQuiet /\ RetryQuiet /\ ProxyInit /\ RequestQuiet /\ DpQuiet /\ MonitorQuiet /\ ValidatorQuiet /\ CrawlQuiet /\ RunOnceQuiet /\ ExportQuiet /\ NotionInit /\ UserAgentQuiet /\ ProcessQuiet /\ DelayQuiet /\ UnitQuiet /\ TxQuiet /\ LoopsQuiet /\ SalaryQuiet

SpecNotion == InitNotion /\ [][NotionNext]_vars

InitUserAgent == SchedQuiet /\ DbQuiet /\ SearchQuiet /\ RetryQuiet /\ ProxyInit /\ RequestQuiet /\ DpQuiet /\ MonitorQuiet /\ ValidatorQuiet /\ CrawlQuiet /\ RunOnceQuiet /\ ExportQuiet /\ NotionQuiet /\ UserAgentInit /\ ProcessQuiet /\ DelayQuiet /\ UnitQuiet /\ TxQuiet /\ LoopsQuiet /\ SalaryQuiet

SpecUserAgent == InitUserAgent /\ [][UserAgentNext]_vars

InitProcess == SchedQuiet /\ DbQuiet /\ SearchQuiet /\ RetryQuiet /\ ProxyInit /\ RequestQuiet /\ DpQuiet /\ MonitorQuiet /\ ValidatorQuiet /\ CrawlQuiet /\ RunOnceQuiet /\ ExportQuiet /\ NotionQuiet /\ UserAgentQuiet /\ ProcessInit /\ DelayQuiet /\ UnitQuiet /\ TxQuiet /\ LoopsQuiet /\ SalaryQuiet

SpecProcess == InitProcess /\ [][ProcessNext]_vars

InitDelay == SchedQuiet /\ DbQuiet /\ SearchQuiet /\ RetryQuiet /\ ProxyInit /\ RequestQuiet /\ DpQuiet /\ MonitorQuiet /\ ValidatorQuiet /\ CrawlQuiet /\ RunOnceQuiet /\ ExportQuiet /\ NotionQuiet /\ UserAgentQuiet /\ ProcessQuiet /\ DelayInit /\ UnitQuiet /\ TxQuiet /\ LoopsQuiet /\ SalaryQuiet

SpecDelay == InitDelay /\ [][DelayNext]_vars

InitUnit == SchedQuiet /\ DbQuiet /\ SearchQuiet /\ RetryQuiet /\ ProxyInit /\ RequestQuiet /\ DpQuiet /\ MonitorQuiet /\ ValidatorQuiet /\ CrawlQuiet /\ RunOnceQuiet /\ ExportQuiet /\ NotionQuiet /\ UserAgentQuiet /\ ProcessQuiet /\ DelayQuiet /\ UnitInit /\ TxQuiet /\ LoopsQuiet /\ SalaryQuiet

SpecUnit == InitUnit /\ [][UnitNext]_vars

InitTx == SchedQuiet /\ DbQuiet /\ SearchQuiet /\ RetryQuiet /\ ProxyInit /\ RequestQuiet /\ DpQuiet /\ MonitorQuiet /\ ValidatorQuiet /\ CrawlQuiet /\ RunOnceQuiet /\ ExportQuiet /\ NotionQuiet /\ UserAgentQuiet /\ ProcessQuiet /\ DelayQuiet /\ UnitQuiet /\ TxInit /\ LoopsQuiet /\ SalaryQuiet

SpecTx == InitTx /\ [][TxNext]_vars

InitLoops == SchedQuiet /\ DbQuiet /\ SearchQuiet /\ RetryQuiet /\ ProxyInit /\ RequestQuiet /\ DpQuiet /\ MonitorQuiet /\ ValidatorQuiet /\ CrawlQuiet /\ RunOnceQuiet /\ ExportQuiet /\ NotionQuiet /\ UserAgentQuiet /\ ProcessQuiet /\ DelayQuiet /\ UnitQuiet /\ TxQuiet /\ LoopsInit /\ SalaryQuiet

SpecLoops == InitLoops /\ [][LoopsNext]_vars

InitSalary == SchedQuiet /\ DbQuiet /\ SearchQuiet /\ RetryQuiet /\ ProxyInit /\ RequestQuiet /\ DpQuiet /\ MonitorQuiet /\ ValidatorQuiet /\ CrawlQuiet /\ RunOnceQuiet /\ ExportQuiet /\ NotionQuiet /\ UserAgentQuiet /\ ProcessQuiet /\ DelayQuiet /\ UnitQuiet /\ TxQuiet /\ LoopsQuiet /\ SalaryInit

SpecSalary == InitSalary /\ [][SalaryNext]_vars

====
